---- MODULE Spec2Model ----
(***************************************************************************)
(* BlockProof backend: the event indexer (blockchain/tasks.py,             *)
(* blockchain/sync_handlers.py, blockchain/models.py), the optimistic      *)
(* Credential write of the issuance views (credentials/views.py), the      *)
(* public verification view (credentials/verification_views.py) and the    *)
(* nonce sequence of BlockProofService.issue_credential                    *)
(* (blockchain/services.py).                                               *)
(*                                                                         *)
(* Strings that the code transforms (fingerprints, addresses) are          *)
(* sequences of one-character strings, so that lower(), replace() and the  *)
(* prefix loop are computed and not assumed.                               *)
(***************************************************************************)
EXTENDS Integers, Sequences, FiniteSets, TLC

\* ------------------------------------------------------------------ bounds
\* Highest block the modelled chain grows to.
MaxBlock == 3
\* Number of credential ids the contract hands out.
MaxCred == 1
\* BLOCKCHAIN_CONFIG['EVENT_INDEXING_BATCH_SIZE'] of the modelled deployment.
BatchSize == 2
\* Number of chain reorganisations in one behaviour.
MaxReorgs == 1
\* Latest time stamp of the verification model.
MaxTime == 3
\* Number of issue_credential calls in one behaviour.
MaxCalls == 1
\* Largest transaction count of the signer before the first call.
MaxBase == 1
\* Number of revocation transactions the revoke view submits in one behaviour.
MaxRevokes == 1
\* Number of issuance logs on the chain the batch specification starts from.
MaxLogs == 2
MaxUsers == 2

CredIds == 1..MaxCred
Calls == 1..MaxCalls

VARIABLES
    chain,        \* the canonical chain: chain[b] is the log mined in block b
    reorgs,       \* reorganisations so far
    checkpoint,   \* IndexerState('credential_events').last_processed_block
    issuedEv,     \* table blockchain_credential_issued
    revokedEv,    \* table blockchain_credential_revoked
    cred,         \* table credentials
    inst,         \* table institutions
    pc,           \* position of the running index_blockchain_events, or "idle"
    last_block,   \* its local last_block
    to_block,     \* its local to_block
    queue,        \* the logs of the current for-loop not yet visited
    event_obj,    \* the event row handed to the sync handler
    credential,   \* the row sync_credential_revoked has read and not yet saved
    runFailed,    \* something failed inside the current run
    skipped,      \* what the current run passed over: [tx, why], tx = 0 for a query
    projRevoked,  \* ids for which sync_credential_revoked has saved revoked = True
    snap,         \* tables, range and logs at the crash of a run that had finished its upserts
    opc,          \* position of the issuance view after the receipt, or "idle"
    ocid,         \* credential id the view decoded from the receipt
    otx,          \* the transaction hash issue_credential returned to the view
    orev,         \* the view's local revoked
    odone,        \* ids whose issuance request has been answered
    now,          \* int(time.time()) at the verification request
    contract,     \* contract[c]: what the contract holds for credential id c
    vreq,         \* the last verification request
    vcalls,       \* what the chain client returned while answering it
    vresp,        \* the Response returned to it
    base,         \* the signer's transaction count before the first call
    sent,         \* the transactions broadcast, in send order
    ipc,          \* ipc[p]: position of call p in issue_credential
    next_nonce,   \* next_nonce[p]: the local of call p
    n_read,       \* n_read[p]: what get_transaction_count returned to call p
    nonce_reads,  \* nonce_reads[p]: get_transaction_count calls made by call p
    loc,          \* loc[p]: the preflight locals of call p
    rresp,        \* the Response of the revoke view to the request in flight
    iresp,        \* the Response of issue / student_verify to the request in flight
    verification_request, \* status of the StudentVerificationRequest row of that request
    supplied,     \* the fingerprint string a caller supplies: prefixes, then h
    cleaned,      \* what each normalization makes of it, applied once and twice
    other         \* the locals of a second index_blockchain_events invocation

idxVars == <<checkpoint, issuedEv, revokedEv, cred, inst, pc, last_block, to_block,
             queue, event_obj, credential, runFailed, skipped, projRevoked, snap>>
orchVars == <<opc, ocid, otx, orev, odone>>
verVars == <<now, contract, vreq, vcalls, vresp>>
issVars == <<base, sent, ipc, next_nonce, n_read, nonce_reads, loc>>
\* What neither the chain, the indexer nor the issuance views touch.
revVars == <<rresp>>
respVars == <<iresp, verification_request>>
normVars == <<supplied, cleaned>>
restVars == <<verVars, issVars, revVars, respVars, normVars, other>>
vars == <<chain, reorgs, idxVars, orchVars, restVars>>

\* ------------------------------------------------------------ text helpers
LowerChar(ch) ==
    CASE ch = "A" -> "a"
      [] ch = "B" -> "b"
      [] ch = "X" -> "x"
      [] OTHER -> ch

\* str.lower()
Lower(s) == [i \in 1..Len(s) |-> LowerChar(s[i])]

\* ------------------------------------------------------------------- chain
NoLog == [kind |-> "none", cid |-> 0]
IssuedLog(c) == [kind |-> "issued", cid |-> c]
RevokedLog(c) == [kind |-> "revoked", cid |-> c]

\* Block number of the chain head (w3.eth.block_number).
ChainHead == Len(chain)

OnChain(kind, c) == \E b \in 1..ChainHead : chain[b] = [kind |-> kind, cid |-> c]

\* The contract numbers credentials 1, 2, ... in issuance order.
NextCredId == Cardinality({b \in 1..ChainHead : chain[b].kind = "issued"}) + 1

\* Institution address and fingerprint carried by the issuance of credential c.
InstAddr == <<"0", "x", "A", "b">>
ChainFp(c) == IF c = 1 THEN <<"a", "b">> ELSE <<"b", "a">>

\* HexBytes.hex() of the fingerprint argument of a decoded log.
HexOf(bytes) == <<"0", "x">> \o bytes

\* A block without a log of the contract is mined.
ChainEmptyBlock ==
    /\ ChainHead < MaxBlock
    /\ chain' = Append(chain, NoLog)
    /\ UNCHANGED <<reorgs, idxVars, orchVars, restVars>>

\* An issueCredential transaction is mined: CredentialIssued(NextCredId).
ChainIssue ==
    /\ ChainHead < MaxBlock
    /\ NextCredId <= MaxCred
    /\ chain' = Append(chain, IssuedLog(NextCredId))
    /\ UNCHANGED <<reorgs, idxVars, orchVars, restVars>>

\* A revokeCredential transaction is mined: CredentialRevoked(c).
ChainRevoke(c) ==
    /\ ChainHead < MaxBlock
    /\ OnChain("issued", c)
    /\ ~OnChain("revoked", c)
    /\ chain' = Append(chain, RevokedLog(c))
    /\ UNCHANGED <<reorgs, idxVars, orchVars, restVars>>

\* A reorganisation between two runs replaces the head block: the head falls by
\* one and the log of the orphaned block is no longer on the canonical chain.
ChainReorg ==
    /\ pc = "idle"
    /\ ChainHead > 0
    /\ reorgs < MaxReorgs
    /\ reorgs' = reorgs + 1
    /\ chain' = SubSeq(chain, 1, ChainHead - 1)
    /\ UNCHANGED <<idxVars, orchVars, restVars>>

\* ------------------------------------------------------------ chain client
TxHash(b) == b

\* A decoded log as contract.events.<name>.get_logs returns it.
LogAt(b) ==
    [blockNumber |-> b, transactionHash |-> TxHash(b), kind |-> chain[b].kind,
     credentialId |-> chain[b].cid, institution |-> InstAddr,
     fingerprint |-> HexOf(ChainFp(chain[b].cid)), revokedAt |-> b,
     reasonHash |-> HexOf(<<"b", "b">>)]

RECURSIVE LogsIn(_, _, _)
LogsIn(event_name, from_block, upto) ==
    IF from_block > upto \/ from_block > ChainHead THEN <<>>
    ELSE (IF chain[from_block].kind = event_name THEN <<LogAt(from_block)>> ELSE <<>>)
         \o LogsIn(event_name, from_block + 1, upto)

\* BlockProofService.get_events: the logs of the range, or [] when the query raised.
get_events(event_name, from_block, upto, rpc_ok) ==
    IF rpc_ok THEN LogsIn(event_name, from_block, upto) ELSE <<>>

\* ------------------------------------------------------------------ stores
Min(a, b) == IF a <= b THEN a ELSE b

NoEvent == [transaction_hash |-> 0, block_number |-> 0, credential_id |-> 0]
NoRow == [credential_id |-> 0]
NoSnap == [taken |-> FALSE, tables |-> <<>>, range |-> <<0, 0>>, logs |-> <<>>]

\* The AutoField primary key "id" of a new row: the next value of the sequence.
NextId(table) == Cardinality(table) + 1

WithId(row, i) == [f \in DOMAIN row \cup {"id"} |-> IF f = "id" THEN i ELSE row[f]]
WithoutId(r) == [f \in DOMAIN r \ {"id"} |-> r[f]]

\* Model.objects.create(**row): an INSERT, whatever the table holds.
Insert(table, f, row) == table \cup {WithId(row, NextId(table))}

\* Model.objects.update_or_create(key = k, defaults = row) on a table keyed by field
\* f: the row that has the key is overwritten in place, else a row is inserted.
Upsert(table, f, row) ==
    LET found == {r \in table : r[f] = row[f]}
    IN  IF found = {} THEN table \cup {WithId(row, NextId(table))}
        ELSE (table \ found) \cup {WithId(row, (CHOOSE r \in found : TRUE).id)}

\* instance.save() of a row read before: an UPDATE of every column by primary key.
Save(table, row) == {r \in table : r.id # row.id} \cup {row}

IssuedRow(event_data) ==
    [transaction_hash |-> event_data.transactionHash,
     block_number |-> event_data.blockNumber,
     credential_id |-> event_data.credentialId,
     institution |-> event_data.institution,
     fingerprint |-> event_data.fingerprint,
     expires_at |-> 0,
     processed |-> TRUE]

RevokedRow(event_data) ==
    [transaction_hash |-> event_data.transactionHash,
     block_number |-> event_data.blockNumber,
     credential_id |-> event_data.credentialId,
     revoked_at |-> event_data.revokedAt,
     reason_hash |-> event_data.reasonHash,
     processed |-> TRUE]

\* CredentialIssuedEvent.credential_id is unique: a second transaction that carries
\* an id already stored makes the INSERT raise IntegrityError.
IssuedConflict(row) ==
    \E r \in issuedEv : r.credential_id = row.credential_id
                        /\ r.transaction_hash # row.transaction_hash

CredExists(c) == \E r \in cred : r.credential_id = c
CredRow(c) == CHOOSE r \in cred : r.credential_id = c

InstExists(a) == \E r \in inst : r.address = a

\* Institution.objects.update_or_create(address = a, defaults = {...})
InstUpdateOrCreate(a, name) ==
    {r \in inst : r.address # a}
    \cup {[address |-> a, name |-> name, is_active |-> TRUE,
           user |-> IF InstExists(a) THEN (CHOOSE r \in inst : r.address = a).user
                    ELSE 0]}

\* Institution.objects.get_or_create(address = a, defaults = {...})
InstGetOrCreate(a, name) ==
    IF InstExists(a) THEN inst
    ELSE inst \cup {[address |-> a, name |-> name, is_active |-> TRUE, user |-> 0]}

\* The defaults sync_credential_issued hands to Credential.objects.update_or_create.
IssuedDefaults(event) ==
    [institution |-> Lower(event.institution),
     fingerprint |-> Lower(event.fingerprint),
     expires_at |-> 0,
     revoked |-> FALSE]

\* Credential.objects.create(credential_id = c, **d)
CredCreate(c, d) ==
    Insert(cred, "credential_id",
           [f \in {"credential_id", "institution", "fingerprint", "expires_at", "revoked",
                    "revoked_at", "revocation_reason_hash", "transaction_hash",
                    "student_name"} |->
               IF f \in DOMAIN d THEN d[f]
               ELSE IF f = "credential_id" THEN c
               ELSE IF f = "student_name" THEN ""
               ELSE IF f = "revocation_reason_hash" THEN <<>>
               ELSE IF f = "revoked" THEN FALSE ELSE 0])

\* An upsert that writes the whole row anew: the fields of d, the model's defaults
\* for the others.
CredReplace(c, d) ==
    LET old == [credential_id |-> c, institution |-> <<>>, fingerprint |-> <<>>,
                expires_at |-> 0, revoked |-> FALSE, revoked_at |-> 0,
                revocation_reason_hash |-> <<>>,
                transaction_hash |-> 0, student_name |-> ""]
        row == [f \in DOMAIN old |-> IF f \in DOMAIN d THEN d[f] ELSE old[f]]
    IN  Upsert(cred, "credential_id", row)

\* Credential.objects.update_or_create(credential_id = c, defaults = d): the row of
\* c with the fields of d overwritten, or a new row with the model's defaults.
CredUpdateOrCreate(c, d) ==
    LET old == IF CredExists(c) THEN WithoutId(CredRow(c))
                ELSE [credential_id |-> c, institution |-> <<>>, fingerprint |-> <<>>,
                      expires_at |-> 0, revoked |-> FALSE, revoked_at |-> 0,
                      revocation_reason_hash |-> <<>>,
                      transaction_hash |-> 0, student_name |-> ""]
        row == [f \in DOMAIN old |-> IF f \in DOMAIN d THEN d[f] ELSE old[f]]
    IN  Upsert(cred, "credential_id", row)

\* The chain-derived columns of the credentials table.
ChainDerived(r) ==
    [credential_id |-> r.credential_id, institution |-> r.institution,
     fingerprint |-> r.fingerprint, expires_at |-> r.expires_at,
     revoked |-> r.revoked, revoked_at |-> r.revoked_at]

Tables ==
    [issued |-> issuedEv, revoked |-> revokedEv,
     credentials |-> {ChainDerived(r) : r \in cred}, institutions |-> inst]

\* ----------------------------------------------------------------- indexer
\* A to_block that is not bounded by the chain head.
ToBlockPastHead(last, current) == last + BatchSize

\* to_block = min(last_block + batch_size, current_block)
ToBlock(last, current) == Min(last + BatchSize, current)

\* A run that never returns early.
NothingNewNever(to, last) == FALSE

\* if to_block <= last_block: return
NothingNew(to, last) == to <= last

\* What the run passes over: a log (by its transaction hash) that raised or whose
\* credential the cache lacks, or a log query that raised (tx = 0).
Skip(tx, why) == [tx |-> tx, why |-> why]

\* A for loop that ends at the first log that raises.
BatchAborted(q) == <<>>

\* _process_credential_*_event caught the exception and returned None: the for
\* loop of the task goes on with the logs that follow.
AfterFailedLog(q) == Tail(q)

\* A read that answers the default of a new row (defaults = {'last_processed_block':
\* 0}) whatever is stored: the run always starts from the beginning of the chain.
GetLastBlockZero == 0

\* IndexerState.get_last_block('credential_events')
get_last_block == checkpoint

\* A checkpoint stored one block below the end of the range.
UpdateLastBlockShort(n) == n - 1

\* The value IndexerState.update_last_block('credential_events', n) stores.
update_last_block(n) == n

IdxLocalsReset ==
    /\ pc' = "idle"
    /\ last_block' = 0
    /\ to_block' = 0
    /\ queue' = <<>>
    /\ event_obj' = NoEvent
    /\ credential' = NoRow
    /\ runFailed' = FALSE
    /\ skipped' = {}

\* The locals of an invocation that has not started.
IdleLocals ==
    [pc |-> "idle", last_block |-> 0, to_block |-> 0, queue |-> <<>>,
     event_obj |-> NoEvent, credential |-> NoRow, runFailed |-> FALSE, skipped |-> {}]

\* Two invocations of index_blockchain_events overlap (a beat tick and the
\* sync_events command, or two workers): the scheduler passes from the one whose
\* locals are pc, last_block, ... to the one whose locals are held in other.
\* Neither takes a lock; both read and write the same tables and checkpoint row.
IndexSwitch ==
    /\ other # [pc |-> pc, last_block |-> last_block, to_block |-> to_block,
                queue |-> queue, event_obj |-> event_obj, credential |-> credential,
                runFailed |-> runFailed, skipped |-> skipped]
    /\ other' = [pc |-> pc, last_block |-> last_block, to_block |-> to_block,
                 queue |-> queue, event_obj |-> event_obj, credential |-> credential,
                 runFailed |-> runFailed, skipped |-> skipped]
    /\ pc' = other.pc
    /\ last_block' = other.last_block
    /\ to_block' = other.to_block
    /\ queue' = other.queue
    /\ event_obj' = other.event_obj
    /\ credential' = other.credential
    /\ runFailed' = other.runFailed
    /\ skipped' = other.skipped
    /\ UNCHANGED <<chain, reorgs, checkpoint, issuedEv, revokedEv, cred, inst, projRevoked,
                   snap, orchVars, verVars, issVars, revVars, respVars, normVars>>

\* index_blockchain_events up to the first log query. Reading the chain head is
\* outside the try block: when it raises, the task ends where it started.
IndexStart ==
    /\ pc = "idle"
    /\ LET last == get_last_block
           to == ToBlock(last, ChainHead)
       IN  /\ ~NothingNew(to, last)
           /\ \E rpc_ok \in BOOLEAN :
                /\ queue' = get_events("issued", last + 1, to, rpc_ok)
                /\ runFailed' = ~rpc_ok
                /\ skipped' = IF rpc_ok THEN {} ELSE {Skip(0, "query")}
           /\ last_block' = last
           /\ to_block' = to
           /\ pc' = "issued"
    /\ snap' = IF /\ snap.taken
                  /\ snap.range = <<get_last_block, ToBlock(get_last_block, ChainHead)>>
                  /\ snap.logs = SubSeq(chain, 1, snap.range[2])
               THEN snap ELSE NoSnap
    /\ UNCHANGED <<chain, reorgs, checkpoint, issuedEv, revokedEv, cred, inst, event_obj,
                   credential, projRevoked, orchVars, restVars>>

\* index_blockchain_events when there is nothing new, or when reading the chain
\* head raises: the task returns without a query and without a write.
IndexNoop ==
    /\ pc = "idle"
    /\ \E head_ok \in BOOLEAN :
         ~head_ok \/ NothingNew(ToBlock(get_last_block, ChainHead), get_last_block)
    /\ UNCHANGED vars

\* _process_credential_issued_event on the next log of the loop: the upsert keyed
\* by transaction_hash, or None when the write raises.
IndexProcessIssued ==
    /\ pc = "issued"
    /\ queue # <<>>
    /\ LET row == IssuedRow(Head(queue))
       IN  \E db_ok \in BOOLEAN :
             IF db_ok /\ ~IssuedConflict(row)
             THEN /\ issuedEv' = Upsert(issuedEv, "transaction_hash", row)
                  /\ event_obj' = row
                  /\ pc' = "sync_issued"
                  /\ queue' = Tail(queue)
                  /\ UNCHANGED <<runFailed, skipped>>
             ELSE /\ runFailed' = TRUE
                  /\ skipped' = skipped \cup {Skip(row.transaction_hash, "error")}
                  /\ queue' = AfterFailedLog(queue)
                  /\ UNCHANGED <<issuedEv, event_obj, pc>>
    /\ UNCHANGED <<chain, reorgs, checkpoint, revokedEv, cred, inst, last_block, to_block,
                   credential, projRevoked, snap, orchVars, restVars>>

\* sync_credential_issued(event_obj): get_or_create of the institution, then
\* update_or_create of the credential; an exception of either write is logged.
IndexSyncIssued ==
    /\ pc = "sync_issued"
    /\ \E fail_at \in 0..2 :
         /\ inst' = IF fail_at = 1 THEN inst
                    ELSE InstGetOrCreate(Lower(event_obj.institution),
                                         "Unknown Institution")
         /\ cred' = IF fail_at = 0
                    THEN CredUpdateOrCreate(event_obj.credential_id,
                                            IssuedDefaults(event_obj))
                    ELSE cred
         /\ runFailed' = (runFailed \/ fail_at # 0)
         /\ skipped' = IF fail_at = 0 THEN skipped
                        ELSE skipped \cup {Skip(event_obj.transaction_hash, "error")}
    /\ event_obj' = NoEvent
    /\ pc' = "issued"
    /\ UNCHANGED <<chain, reorgs, checkpoint, issuedEv, revokedEv, last_block, to_block, queue,
                   credential, projRevoked, snap, orchVars, restVars>>

\* The second log query of the run, made when the issued loop is over.
IndexFetchRevoked ==
    /\ pc = "issued"
    /\ queue = <<>>
    /\ \E rpc_ok \in BOOLEAN :
         /\ queue' = get_events("revoked", last_block + 1, to_block, rpc_ok)
         /\ runFailed' = (runFailed \/ ~rpc_ok)
         /\ skipped' = IF rpc_ok THEN skipped ELSE skipped \cup {Skip(0, "query")}
    /\ pc' = "revoked"
    /\ UNCHANGED <<chain, reorgs, checkpoint, issuedEv, revokedEv, cred, inst, last_block,
                   to_block, event_obj, credential, projRevoked, snap, orchVars,
                   restVars>>

\* _process_credential_revoked_event on the next log of the loop.
IndexProcessRevoked ==
    /\ pc = "revoked"
    /\ queue # <<>>
    /\ LET row == RevokedRow(Head(queue))
       IN  \E db_ok \in BOOLEAN :
             IF db_ok
             THEN /\ revokedEv' = Upsert(revokedEv, "transaction_hash", row)
                  /\ event_obj' = row
                  /\ pc' = "sync_revoked"
                  /\ queue' = Tail(queue)
                  /\ UNCHANGED <<runFailed, skipped>>
             ELSE /\ runFailed' = TRUE
                  /\ skipped' = skipped \cup {Skip(row.transaction_hash, "error")}
                  /\ queue' = AfterFailedLog(queue)
                  /\ UNCHANGED <<revokedEv, event_obj, pc>>
    /\ UNCHANGED <<chain, reorgs, checkpoint, issuedEv, cred, inst, last_block, to_block,
                   credential, projRevoked, snap, orchVars, restVars>>

\* sync_credential_revoked, the read: Credential.objects.get(credential_id = ...).
\* DoesNotExist is logged as a warning and the log is skipped.
IndexSyncRevokedGet ==
    /\ pc = "sync_revoked"
    /\ IF CredExists(event_obj.credential_id)
       THEN /\ credential' = CredRow(event_obj.credential_id)
            /\ pc' = "save_revoked"
            /\ UNCHANGED <<event_obj, skipped>>
       ELSE /\ credential' = NoRow
            /\ pc' = "revoked"
            /\ skipped' = skipped \cup {Skip(event_obj.transaction_hash, "no_credential")}
            /\ event_obj' = NoEvent
    /\ UNCHANGED <<chain, reorgs, checkpoint, issuedEv, revokedEv, cred, inst, last_block,
                   to_block, queue, runFailed, projRevoked, snap, orchVars, restVars>>

\* A save that sets the flag and leaves the other revocation columns as read.
RevokedSaveFlagOnly(row, event) == [row EXCEPT !.revoked = TRUE]

\* The row sync_credential_revoked saves: the row it read, with the revocation set.
RevokedSave(row, event) ==
    [row EXCEPT !.revoked = TRUE, !.revoked_at = event.revoked_at,
                !.revocation_reason_hash = event.reason_hash]

\* sync_credential_revoked, the write: credential.save() stores every column of
\* the instance read before; an exception of the write is logged.
IndexSyncRevokedSave ==
    /\ pc = "save_revoked"
    /\ \E db_ok \in BOOLEAN :
         IF db_ok
         THEN /\ cred' = Save(cred, RevokedSave(credential, event_obj))
              /\ projRevoked' = projRevoked \cup {event_obj.credential_id}
              /\ UNCHANGED <<runFailed, skipped>>
         ELSE /\ runFailed' = TRUE
              /\ skipped' = skipped \cup {Skip(event_obj.transaction_hash, "error")}
              /\ UNCHANGED <<cred, projRevoked>>
    /\ credential' = NoRow
    /\ event_obj' = NoEvent
    /\ pc' = "revoked"
    /\ UNCHANGED <<chain, reorgs, checkpoint, issuedEv, revokedEv, inst, last_block, to_block,
                   queue, snap, orchVars, restVars>>

\* IndexerState.update_last_block('credential_events', to_block) at the end of the
\* try block; when the write raises, the except clause logs and the task ends.
IndexCommit ==
    /\ pc = "revoked"
    /\ queue = <<>>
    /\ \E db_ok \in BOOLEAN :
         checkpoint' = IF db_ok THEN update_last_block(to_block) ELSE checkpoint
    /\ IdxLocalsReset
    /\ snap' = NoSnap
    /\ UNCHANGED <<chain, reorgs, issuedEv, revokedEv, cred, inst, projRevoked, orchVars,
                   restVars>>

\* The worker is killed in the middle of a run: what was written stays, the
\* checkpoint is not written.
IndexCrash ==
    /\ pc # "idle"
    /\ snap' = IF pc = "revoked" /\ queue = <<>>
               THEN [taken |-> TRUE, tables |-> Tables, range |-> <<last_block, to_block>>,
                     logs |-> SubSeq(chain, 1, Min(to_block, ChainHead))]
               ELSE NoSnap
    /\ IdxLocalsReset
    /\ UNCHANGED <<chain, reorgs, checkpoint, issuedEv, revokedEv, cred, inst, projRevoked,
                   orchVars, restVars>>

\* --------------------------------------------- issuance views, after the receipt
\* The institution row a registration created (InstitutionRegistrationSerializer).
RegisteredInst ==
    [address |-> Lower(InstAddr), name |-> "Test University", is_active |-> TRUE,
     user |-> 1]

\* _normalize_0x_hex(value) for a value that is not empty.
RECURSIVE StripLeading0x(_)
StripLeading0x(v) ==
    IF Len(v) >= 2 /\ Lower(SubSeq(v, 1, 2)) = <<"0", "x">>
    THEN StripLeading0x(SubSeq(v, 3, Len(v)))
    ELSE v

_normalize_0x_hex(value) == <<"0", "x">> \o Lower(StripLeading0x(value))

\* student_name of the request, which stands for the fields the views take from
\* the request or the upload (student_name, passport_number, degree_type,
\* graduation_year, diploma_file_hash, diploma_file_path).
StudentName == "Ada Lovelace"

\* The defaults issue / student_verify hand to Credential.objects.update_or_create.
OrchDefaults(c, tx_hash, revoked) ==
    [institution |-> RegisteredInst.address,
     fingerprint |-> _normalize_0x_hex(HexOf(ChainFp(c))),
     expires_at |-> 0,
     revoked |-> revoked,
     transaction_hash |-> tx_hash,
     student_name |-> StudentName]

\* issue / student_verify: the receipt of the mined issuance has status 1 and its
\* CredentialIssued event gives credential_id = c.
OrchReceipt(c) ==
    /\ opc = "idle"
    /\ c \notin odone
    /\ OnChain("issued", c)
    /\ RegisteredInst \in inst
    /\ opc' = "status"
    /\ ocid' = c
    /\ otx' = TxHash(CHOOSE b \in 1..ChainHead : chain[b] = IssuedLog(c))
    /\ UNCHANGED <<chain, reorgs, idxVars, orev, odone, restVars>>

\* status_data = service.get_credential_status(credential_id) or {}
\* revoked = bool(status_data.get("revoked", False))
OrchReadStatus ==
    /\ opc = "status"
    /\ \E rpc_ok \in BOOLEAN :
         orev' = IF rpc_ok THEN OnChain("revoked", ocid) ELSE FALSE
    /\ opc' = "write"
    /\ UNCHANGED <<chain, reorgs, idxVars, ocid, otx, odone, restVars>>

\* An optimistic write that also records the issuance event and moves the checkpoint.
OrchWriteRecordingEvent ==
    /\ opc = "write"
    /\ cred' = CredUpdateOrCreate(ocid, OrchDefaults(ocid, otx, orev))
    /\ issuedEv' = Upsert(issuedEv, "transaction_hash", IssuedRow(LogAt(otx)))
    /\ checkpoint' = otx
    /\ snap' = NoSnap
    /\ opc' = "idle"
    /\ odone' = odone \cup {ocid}
    /\ ocid' = 0
    /\ otx' = 0
    /\ orev' = FALSE
    /\ UNCHANGED <<chain, reorgs, revokedEv, inst, pc, last_block, to_block, queue,
                   event_obj, credential, runFailed, skipped, projRevoked, restVars>>

\* Credential.objects.update_or_create(credential_id = credential_id, defaults = ...)
OrchWrite ==
    /\ opc = "write"
    /\ cred' = CredUpdateOrCreate(ocid, OrchDefaults(ocid, otx, orev))
    /\ snap' = NoSnap
    /\ opc' = "idle"
    /\ odone' = odone \cup {ocid}
    /\ ocid' = 0
    /\ otx' = 0
    /\ orev' = FALSE
    /\ UNCHANGED <<chain, reorgs, checkpoint, issuedEv, revokedEv, inst, pc, last_block,
                   to_block, queue, event_obj, credential, runFailed, skipped,
                   projRevoked, restVars>>

\* ------------------------------------------------------- verification view
\* Length of the hex body of a fingerprint (64 in the deployment).
HexLen == Len(ChainFp(1))

HexChars == {"a", "b", "0", "1"}

IsHex(s) == \A i \in 1..Len(s) : LowerChar(s[i]) \in HexChars

\* while fingerprint_clean.startswith('0x'): fingerprint_clean = fingerprint_clean[2:]
RECURSIVE StripPrefixLoop(_)
StripPrefixLoop(v) ==
    IF Len(v) >= 2 /\ SubSeq(v, 1, 2) = <<"0", "x">>
    THEN StripPrefixLoop(SubSeq(v, 3, Len(v)))
    ELSE v

\* A fingerprint_clean that strips one prefix only.
FingerprintCleanOnce(fingerprint) ==
    LET v == Lower(fingerprint)
    IN  IF Len(v) >= 2 /\ SubSeq(v, 1, 2) = <<"0", "x">> THEN SubSeq(v, 3, Len(v)) ELSE v

\* fingerprint_clean of verify_from_link: strip().lower(), then the prefix loop.
FingerprintClean(fingerprint) == StripPrefixLoop(Lower(fingerprint))

\* str.replace(old, ''), for a two-character old: every occurrence, left to right,
\* without overlap.
RECURSIVE Replace(_, _)
Replace(v, old) ==
    IF Len(v) < 2 THEN v
    ELSE IF SubSeq(v, 1, 2) = old THEN Replace(SubSeq(v, 3, Len(v)), old)
    ELSE <<v[1]>> \o Replace(Tail(v), old)

\* credential_fp of verify_from_link: credential.fingerprint.lower().replace('0x', '')
CredentialFp(stored) == Replace(Lower(stored), <<"0", "x">>)

\* Credential.is_valid()
is_valid(row, t) ==
    IF row.revoked THEN FALSE
    ELSE IF row.expires_at # 0 /\ row.expires_at < t THEN FALSE
    ELSE TRUE

\* 'expired': credential.expires_at and credential.expires_at < int(time.time());
\* the null of a credential without expiry is shown as FALSE.
Expired(row, t) == row.expires_at # 0 /\ row.expires_at < t

NoContractCred == [exists |-> FALSE, fingerprint |-> <<>>, valid |-> FALSE, revoked |-> FALSE]

\* BlockProofService.verify_fingerprint(credential_id, fingerprint): "none" for a
\* malformed value or a call that raised, else the contract's verifyFingerprint.
\* The contract answers false for a fingerprint that is not the one recorded for
\* the id; a contract that reverts for an unknown id is the call that raised.
verify_fingerprint(c, fingerprint, rpc_ok) ==
    LET fingerprint_clean ==
            Lower(Replace(Replace(fingerprint, <<"0", "x">>), <<"0", "X">>))
    IN  IF Len(fingerprint_clean) # HexLen THEN "none"
        ELSE IF ~IsHex(fingerprint_clean) THEN "none"
        ELSE IF ~rpc_ok THEN "none"
        ELSE IF contract[c].exists /\ contract[c].fingerprint = fingerprint_clean
             THEN "true" ELSE "false"

\* BlockProofService.get_credential_status(credential_id): the dict, or "none".
get_credential_status(c, rpc_ok) ==
    IF rpc_ok THEN [none |-> FALSE, valid |-> contract[c].valid,
                    revoked |-> contract[c].revoked]
    ELSE [none |-> TRUE, valid |-> FALSE, revoked |-> FALSE]

\* The answer of verify_from_link from the cached row.
CacheResponse(c, row, fingerprint_clean, t) ==
    IF CredentialFp(row.fingerprint) = fingerprint_clean
    THEN [http |-> 200,
          status |-> IF is_valid(row, t) THEN "VALID" ELSE "INVALID",
          credential_id |-> c,
          fingerprint_match |-> TRUE,
          valid |-> is_valid(row, t),
          revoked |-> row.revoked,
          expired |-> Expired(row, t),
          source |-> "cache"]
    ELSE [http |-> 200,
          status |-> "TAMPERED",
          credential_id |-> c,
          fingerprint_match |-> FALSE,
          expected_fingerprint |-> row.fingerprint,
          provided_fingerprint |-> <<"0", "x">> \o fingerprint_clean,
          source |-> "cache"]

\* An answer from the chain that names no verdict when the status read gave nothing.
ChainResponseNoVerdict(c, verified, status_data) ==
    IF verified = "true" /\ status_data.none
    THEN [http |-> 200, credential_id |-> c, source |-> "blockchain"]
    ELSE [http |-> 200,
          status |-> IF verified = "false" THEN "TAMPERED"
                     ELSE IF verified = "none" THEN "NOT_FOUND"
                     ELSE IF status_data.valid THEN "VALID" ELSE "INVALID",
          credential_id |-> c,
          source |-> "blockchain"]

\* The answer of verify_from_link from the chain, given what the two calls returned.
ChainResponse(c, verified, status_data) ==
    IF verified = "true" /\ ~status_data.none
    THEN [http |-> 200,
          status |-> IF status_data.valid THEN "VALID" ELSE "INVALID",
          credential_id |-> c,
          fingerprint_match |-> TRUE,
          valid |-> status_data.valid,
          revoked |-> status_data.revoked,
          source |-> "blockchain"]
    ELSE [http |-> 200,
          status |-> IF verified = "false" THEN "TAMPERED" ELSE "NOT_FOUND",
          credential_id |-> c,
          fingerprint_match |-> FALSE,
          source |-> "blockchain"]

ServiceUnavailable == [http |-> 503, error |-> "Blockchain service not configured"]

NoCalls == [verify |-> "not_called", status_read |-> "not_called"]

\* verify_from_link(request, credential_id, fingerprint) for an integer id.
VerifyFromLink(c, fingerprint, configured, rpc_ok1, rpc_ok2) ==
    LET fingerprint_clean == FingerprintClean(fingerprint)
        verified == verify_fingerprint(c, <<"0", "x">> \o fingerprint_clean, rpc_ok1)
        status_data == get_credential_status(c, rpc_ok2)
    IN  /\ vreq' = [credential_id |-> c, fingerprint |-> fingerprint]
        /\ IF CredExists(c)
           THEN /\ vresp' = CacheResponse(c, CredRow(c), fingerprint_clean, now)
                /\ vcalls' = NoCalls
           ELSE IF ~configured
           THEN /\ vresp' = ServiceUnavailable
                /\ vcalls' = NoCalls
           ELSE /\ vresp' = ChainResponse(c, verified, status_data)
                /\ vcalls' = [verify |-> verified,
                              status_read |-> IF verified # "true" THEN "not_called"
                                              ELSE IF status_data.none THEN "none"
                                              ELSE "dict"]
        /\ UNCHANGED <<chain, reorgs, idxVars, orchVars, now, contract, issVars, revVars, respVars, normVars, other>>

\* ------------------------------------------- BlockProofService.issue_credential
\* The preflight locals. can_issue is read twice, can_issue_preflight keeps its
\* first value; super_admin is what superAdmin() answers about the signer,
\* whether or not the call goes on to ask; is_registrar is FALSE when not read.
NoLocals == [inst_exists |-> FALSE, inst_is_active |-> FALSE, can_issue |-> FALSE,
             can_issue_preflight |-> FALSE, super_admin |-> FALSE,
             is_registrar |-> FALSE]

RECURSIVE NoncesOf(_)
NoncesOf(txs) == IF txs = <<>> THEN {} ELSE {Head(txs).nonce} \cup NoncesOf(Tail(txs))

\* w3.eth.get_transaction_count(sender, 'pending'): the mined and the pooled
\* transactions of the signer.
get_transaction_count == base + Cardinality(NoncesOf(sent))

\* next_nonce that never moves.
NonceStale(n) == n

\* next_nonce += 1
NonceAfterSend(n) == n + 1

\* A preflight test that leaves out canIssueForInstitution.
NotReadyInstitutionOnly(l) == ~l.inst_exists \/ ~l.inst_is_active

\* if not inst_exists or not inst_is_active or not can_issue
NotReady(l) == ~l.inst_exists \/ ~l.inst_is_active \/ ~l.can_issue

\* The exception handler of issue_credential: log, return None.
IssueAbort(p) ==
    /\ ipc' = [ipc EXCEPT ![p] = "failed"]
    /\ UNCHANGED <<sent, next_nonce>>

\* A send that goes on to the next step without waiting for the receipt.
SendTxNoWait(p, fn, send_ok, then) ==
    IF send_ok
    THEN /\ sent' = Append(sent, [call |-> p, fn |-> fn, nonce |-> next_nonce[p]])
         /\ next_nonce' = [next_nonce EXCEPT ![p] = @ + 1]
         /\ ipc' = [ipc EXCEPT ![p] =
                      CASE then = "wait_registrar" -> "institution"
                        [] then = "wait_institution" -> "recheck"
                        [] then = "wait_controller" -> "issue"
                        [] OTHER -> then]
    ELSE /\ ipc' = [ipc EXCEPT ![p] = "failed"]
         /\ UNCHANGED <<sent, next_nonce>>

\* build_transaction with 'nonce': next_nonce, _send_signed_transaction,
\* next_nonce += 1; a send that raises leaves for the exception handler.
SendTx(p, fn, send_ok, then) ==
    IF send_ok
    THEN /\ sent' = Append(sent, [call |-> p, fn |-> fn, nonce |-> next_nonce[p]])
         /\ next_nonce' = [next_nonce EXCEPT ![p] = NonceAfterSend(@)]
         /\ ipc' = [ipc EXCEPT ![p] = then]
    ELSE IssueAbort(p)

\* The start of the call: the configuration test, the one read of the pending
\* transaction count, the preflight reads getInstitution, canIssueForInstitution,
\* superAdmin and registrars, each FALSE when the call raises.
IssueBegin(p) ==
    /\ ipc[p] = "idle"
    /\ \E start \in {"unconfigured", "raises", "ok"},
          inst_exists, inst_is_active, can_issue, super_admin, is_registrar \in BOOLEAN :
         LET l == [inst_exists |-> inst_exists, inst_is_active |-> inst_is_active,
                   can_issue |-> can_issue,
                   can_issue_preflight |-> can_issue,
                   super_admin |-> super_admin,
                   is_registrar |-> IF NotReady([inst_exists |-> inst_exists,
                                                 inst_is_active |-> inst_is_active,
                                                 can_issue |-> can_issue]) /\ super_admin
                                    THEN is_registrar ELSE FALSE]
         IN  CASE start = "unconfigured" ->
                    /\ ipc' = [ipc EXCEPT ![p] = "failed"]
                    /\ UNCHANGED <<next_nonce, n_read, nonce_reads, loc>>
               [] start = "raises" ->
                    /\ ipc' = [ipc EXCEPT ![p] = "failed"]
                    /\ nonce_reads' = [nonce_reads EXCEPT ![p] = @ + 1]
                    /\ UNCHANGED <<next_nonce, n_read, loc>>
               [] start = "ok" ->
                    /\ nonce_reads' = [nonce_reads EXCEPT ![p] = @ + 1]
                    /\ n_read' = [n_read EXCEPT ![p] = get_transaction_count]
                    /\ next_nonce' = [next_nonce EXCEPT ![p] = get_transaction_count]
                    /\ loc' = [loc EXCEPT ![p] = l]
                    /\ ipc' = [ipc EXCEPT ![p] =
                                 IF NotReady(l) /\ l.super_admin THEN "registrar" ELSE "issue"]
    /\ UNCHANGED <<chain, reorgs, idxVars, orchVars, verVars, revVars, respVars, normVars, other, base, sent>>

\* if not is_registrar: send setRegistrar(sender, True)
IssueSetRegistrar(p) ==
    /\ ipc[p] = "registrar"
    /\ IF loc[p].is_registrar
       THEN /\ ipc' = [ipc EXCEPT ![p] = "institution"]
            /\ UNCHANGED <<sent, next_nonce>>
       ELSE \E send_ok \in BOOLEAN : SendTx(p, "setRegistrar", send_ok, "wait_registrar")
    /\ UNCHANGED <<chain, reorgs, idxVars, orchVars, verVars, revVars, respVars, normVars, other, base, n_read, nonce_reads, loc>>

\* if not inst_exists or not inst_is_active: send upsertInstitution(institution, name, True)
IssueUpsertInstitution(p) ==
    /\ ipc[p] = "institution"
    /\ IF loc[p].inst_exists /\ loc[p].inst_is_active
       THEN /\ ipc' = [ipc EXCEPT ![p] = "recheck"]
            /\ UNCHANGED <<sent, next_nonce>>
       ELSE \E send_ok \in BOOLEAN :
                SendTx(p, "upsertInstitution", send_ok, "wait_institution")
    /\ UNCHANGED <<chain, reorgs, idxVars, orchVars, verVars, revVars, respVars, normVars, other, base, n_read, nonce_reads, loc>>

\* The second canIssueForInstitution read, FALSE when the call raises.
IssueRecheck(p) ==
    /\ ipc[p] = "recheck"
    /\ \E can_issue \in BOOLEAN :
         /\ loc' = [loc EXCEPT ![p].can_issue = can_issue]
         /\ ipc' = [ipc EXCEPT ![p] = IF can_issue THEN "issue" ELSE "controller"]
    /\ UNCHANGED <<chain, reorgs, idxVars, orchVars, verVars, revVars, respVars, normVars, other, base, sent, next_nonce,
                   n_read, nonce_reads>>

\* if not can_issue: send setInstitutionController(institution, sender, True)
IssueSetController(p) ==
    /\ ipc[p] = "controller"
    /\ \E send_ok \in BOOLEAN : SendTx(p, "setInstitutionController", send_ok, "wait_controller")
    /\ UNCHANGED <<chain, reorgs, idxVars, orchVars, verVars, revVars, respVars, normVars, other, base, n_read, nonce_reads, loc>>

AfterWait(at) ==
    CASE at = "wait_registrar" -> "institution"
      [] at = "wait_institution" -> "recheck"
      [] at = "wait_controller" -> "issue"

\* w3.eth.wait_for_transaction_receipt(tx_hash, timeout=120): returns, or raises
\* at the timeout.
IssueWaitReceipt(p) ==
    /\ ipc[p] \in {"wait_registrar", "wait_institution", "wait_controller"}
    /\ \E mined \in BOOLEAN :
         ipc' = [ipc EXCEPT ![p] = IF mined THEN AfterWait(@) ELSE "failed"]
    /\ UNCHANGED <<chain, reorgs, idxVars, orchVars, verVars, revVars, respVars, normVars, other, base, sent, next_nonce,
                   n_read, nonce_reads, loc>>

\* The issuance transaction; the call returns its hash.
IssueSend(p) ==
    /\ ipc[p] = "issue"
    /\ \E send_ok \in BOOLEAN : SendTx(p, "issueCredential", send_ok, "done")
    /\ UNCHANGED <<chain, reorgs, idxVars, orchVars, verVars, revVars, respVars, normVars, other, base, n_read, nonce_reads, loc>>

\* ------------------------------------------------------------ specification
NoReq == [credential_id |-> 0, fingerprint |-> <<>>]
NoResp == [http |-> 0]

\* --------------------------------------------- fingerprint normalizations
\* fingerprint_clean of verify_credential: strip().lower(), then one prefix off.
VerifyCredentialClean(fingerprint) ==
    LET v == Lower(fingerprint)
    IN  IF Len(v) >= 2 /\ SubSeq(v, 1, 2) = <<"0", "x">> THEN SubSeq(v, 3, Len(v)) ELSE v

Normalizations == {"verify_from_link", "verify_credential", "_normalize_0x_hex"}

NormalizeBy(k, fingerprint) ==
    CASE k = "verify_from_link" -> FingerprintClean(fingerprint)
      [] k = "verify_credential" -> VerifyCredentialClean(fingerprint)
      [] k = "_normalize_0x_hex" -> _normalize_0x_hex(fingerprint)

NoSupplied == [prefixes |-> <<>>, h |-> <<>>]
NoCleaned == [applied |-> FALSE]

\* Each normalization applied to the supplied string, and to its own result.
Normalize ==
    /\ supplied # NoSupplied
    /\ cleaned = NoCleaned
    /\ cleaned' = [applied |-> TRUE,
                   once |-> [k \in Normalizations |->
                                NormalizeBy(k, supplied.prefixes \o supplied.h)],
                   twice |-> [k \in Normalizations |->
                                NormalizeBy(k, NormalizeBy(k, supplied.prefixes \o supplied.h))]]
    /\ UNCHANGED <<chain, reorgs, idxVars, orchVars, verVars, issVars, revVars, respVars,
                   supplied, other>>

\* ----------------------------------- verify_credential and credential_status
\* verify_credential(request) for an integer credential_id and a fingerprint that
\* is not empty: the length check, the cached row when its fingerprint matches,
\* else the contract's verifyFingerprint.
VerifyCredential(c, fingerprint, configured, rpc_ok) ==
    LET fingerprint_clean == VerifyCredentialClean(fingerprint)
        verified == verify_fingerprint(c, <<"0", "x">> \o fingerprint_clean, rpc_ok)
        matches == /\ CredExists(c)
                   /\ CredentialFp(CredRow(c).fingerprint) = fingerprint_clean
    IN  /\ vreq' = [credential_id |-> c, fingerprint |-> fingerprint,
                    view |-> "verify_credential"]
        /\ IF Len(fingerprint_clean) # HexLen
           THEN /\ vresp' = [http |-> 400,
                             error |-> "Fingerprint must be 32 bytes (64 hex characters)"]
                /\ vcalls' = NoCalls
           ELSE IF matches
           THEN /\ vresp' = [http |-> 200, valid |-> is_valid(CredRow(c), now),
                             credential_id |-> c, source |-> "cache"]
                /\ vcalls' = NoCalls
           ELSE IF ~configured
           THEN /\ vresp' = ServiceUnavailable
                /\ vcalls' = NoCalls
           ELSE /\ vresp' = IF verified = "none"
                            THEN [http |-> 500,
                                  error |-> "Verification service returned invalid response."]
                            ELSE [http |-> 200, valid |-> (verified = "true"),
                                  credential_id |-> c, source |-> "blockchain"]
                /\ vcalls' = [verify |-> verified, status_read |-> "not_called"]
        /\ UNCHANGED <<chain, reorgs, idxVars, orchVars, now, contract, issVars, revVars,
                       respVars, normVars, other>>

\* credential_status(request, credential_id): the cached row, else the contract's
\* credentialStatus, else 404.
CredentialStatus(c, configured, rpc_ok) ==
    LET status_data == get_credential_status(c, configured /\ rpc_ok)
    IN  /\ vreq' = [credential_id |-> c, fingerprint |-> <<>>,
                    view |-> "credential_status"]
        /\ IF CredExists(c)
           THEN /\ vresp' = [http |-> 200, exists |-> TRUE,
                             valid |-> is_valid(CredRow(c), now),
                             revoked |-> CredRow(c).revoked,
                             fingerprint |-> CredRow(c).fingerprint,
                             expires_at |-> CredRow(c).expires_at,
                             revoked_at |-> CredRow(c).revoked_at,
                             source |-> "cache"]
                /\ vcalls' = NoCalls
           ELSE /\ vresp' = IF status_data.none
                            THEN [http |-> 404, error |-> "Credential not found"]
                            ELSE [http |-> 200, exists |-> contract[c].exists,
                                  valid |-> status_data.valid,
                                  revoked |-> status_data.revoked,
                                  source |-> "blockchain"]
                /\ vcalls' = [verify |-> "not_called",
                              status_read |-> IF status_data.none THEN "none" ELSE "dict"]
        /\ UNCHANGED <<chain, reorgs, idxVars, orchVars, now, contract, issVars, revVars,
                       respVars, normVars, other>>

\* ------------------------------------------------------------- revoke view
\* BlockProofService.revoke_credential(credential_id, reason_hash): one
\* revokeCredential transaction at the pending nonce, or None when the service is
\* not configured or the nonce read, the build or the send raises.
revoke_credential(c, outcome) ==
    IF outcome = "sent"
    THEN /\ Len(sent) < MaxRevokes
         /\ sent' = Append(sent, [call |-> 0, fn |-> "revokeCredential",
                                  nonce |-> get_transaction_count])
         /\ rresp' = [http |-> 202, credential_id |-> c,
                      message |-> "Revocation transaction submitted"]
    ELSE /\ rresp' = [http |-> 500, credential_id |-> c,
                      error |-> "Failed to revoke credential on blockchain"]
         /\ UNCHANGED sent

\* CredentialViewSet.revoke(request, pk = c): 404 when the cache has no row of c,
\* else the transaction is submitted; 202 with its hash, or 500.
RevokeView(c) ==
    /\ rresp = NoResp
    /\ IF ~CredExists(c)
       THEN /\ rresp' = [http |-> 404, credential_id |-> c]
            /\ UNCHANGED sent
       ELSE \E outcome \in {"unconfigured", "raises", "sent"} : revoke_credential(c, outcome)
    /\ UNCHANGED <<chain, reorgs, idxVars, orchVars, verVars, respVars, normVars, other, base, ipc,
                   next_nonce, n_read, nonce_reads, loc>>

\* The client has received the Response of the revoke view.
RevokeDone ==
    /\ rresp # NoResp
    /\ rresp' = NoResp
    /\ UNCHANGED <<chain, reorgs, idxVars, orchVars, verVars, issVars, respVars, normVars, other>>

\* ------------------------------------------------------- institution accounts
\* The account addresses a caller supplies: the signer's address in checksum,
\* lower and upper case, and another address.
Addresses == {InstAddr, Lower(InstAddr), <<"0", "x", "A", "B">>, <<"0", "x", "B", "a">>}

\* An address stored as the caller wrote it.
AddressAsGiven(value) == value

\* InstitutionRegistrationSerializer.validate_account_address: return value.lower()
validate_account_address(value) == Lower(value)

\* The id of the next User row: users are created with their institution row.
NextUser == Cardinality({r.user : r \in inst} \ {0}) + 1

\* register_institution: User.objects.create_user, then Institution.objects.create
\* with the validated address; the unique constraint on address makes create raise
\* when a row has that address, and the view answers 500.
RegisterInstitution(value) ==
    LET account_address == validate_account_address(value)
    IN  /\ NextUser <= MaxUsers
        /\ inst' = IF InstExists(account_address) THEN inst
                   ELSE inst \cup {[address |-> account_address, name |-> "Test University",
                                    is_active |-> TRUE, user |-> NextUser]}
        /\ UNCHANGED <<chain, reorgs, checkpoint, issuedEv, revokedEv, cred, pc, last_block,
                       to_block, queue, event_obj, credential, runFailed, skipped,
                       projRevoked, snap, orchVars, restVars>>

\* InstitutionViewSet.me, PATCH with an address, by user u: institution.address =
\* address.lower() and save(); the save raises when another row has that address.
ProfileUpdate(u, address) ==
    /\ \E r \in inst : r.user = u
    /\ LET institution == CHOOSE r \in inst : r.user = u
           updated == [institution EXCEPT !.address = Lower(address)]
       IN  inst' = IF \E r \in inst \ {institution} : r.address = updated.address
                   THEN inst
                   ELSE (inst \ {institution}) \cup {updated}
    /\ UNCHANGED <<chain, reorgs, checkpoint, issuedEv, revokedEv, cred, pc, last_block,
                   to_block, queue, event_obj, credential, runFailed, skipped,
                   projRevoked, snap, orchVars, restVars>>

\* ------------------------------------------- issuance views: the Response
Views == {"issue", "student_verify"}

\* if not tx_hash: the Response of both views when issue_credential returned None.
SubmissionFailed ==
    [http |-> 500, error |-> "Failed to issue credential on blockchain"]

\* The Response of the branch getattr(receipt, "status", 0) != 1.
TransactionReverted(view, tx_hash) ==
    [http |-> 500,
     error |-> IF view = "issue" THEN "Transaction reverted (contract execution failed)."
               ELSE "Transaction reverted",
     transaction_hash |-> tx_hash]

\* The Response at the end of the view: 201 with the credential id when the id was
\* resolved from the receipt, else 202 without it (credential_id = 0 is None).
Submitted(view, tx_hash, credential_id) ==
    IF view = "issue"
    THEN [http |-> IF credential_id # 0 THEN 201 ELSE 202,
          transaction_hash |-> tx_hash,
          credential_id |-> credential_id,
          message |-> "Credential issuance transaction submitted. It will appear after event indexing."]
    ELSE IF credential_id # 0
    THEN [http |-> 201, status |-> "approved", transaction_hash |-> tx_hash,
          credential_id |-> credential_id,
          message |-> "Document verified and credential issued successfully"]
    ELSE [http |-> 202, status |-> "approved", transaction_hash |-> tx_hash,
          message |-> "Document verified and credential issued. Credential ID will be available after event indexing."]

\* An exception no handler of the view catches: the server's 500 page.
ServerError == [http |-> 500, error |-> "Internal Server Error"]

\* What wait_for_transaction_receipt gives for the transaction of block b: the
\* receipt of a mined issuance (status 1), the receipt of a transaction that left
\* no log (status 0), or TimeExhausted for a transaction no block holds yet.
Waits(b) ==
    IF b > ChainHead THEN {"timeout"}
    ELSE IF chain[b].kind = "issued" THEN {"mined", "timeout"}
    ELSE IF chain[b] = NoLog THEN {"reverted", "timeout"}
    ELSE {}

\* The credential_id the try block of the views leaves: the id of the event decoded
\* from a receipt of status 1, or 0 (None) when the wait raised, no event was
\* decoded, or the revert branch of issue raised at its chain_id read.
ResolvedId(b, wait, decoded) ==
    IF wait = "mined" /\ decoded THEN chain[b].cid ELSE 0

\* The branch of status != 1 returns its Response: always in student_verify, in
\* issue when int(service.w3.eth.chain_id) did not raise.
RevertReturns(view, wait, chain_id_ok) ==
    wait = "reverted" /\ (view = "student_verify" \/ chain_id_ok)

\* issue (views.py 285-396) and student_verify (views.py 622-733) from the call of
\* issue_credential to the Response, for the transaction of block b. student_verify
\* has first looked up or created the institution of the signer's address
\* (views.py 527-537); issue uses the institution of the authenticated user.
IssueRespond(view, submitted, b, wait, chain_id_ok, decoded, rpc_ok, chain_id_ok2) ==
    /\ iresp = NoResp
    /\ b \in 1..(ChainHead + 1)
    /\ wait \in Waits(b)
    /\ LET tx_hash == TxHash(b)
           credential_id == ResolvedId(b, wait, decoded)
           revoked == IF rpc_ok THEN OnChain("revoked", credential_id) ELSE FALSE
       IN  IF ~submitted
           THEN /\ iresp' = SubmissionFailed
                /\ verification_request' = IF view = "issue" THEN "none" ELSE "rejected"
                /\ UNCHANGED <<cred, snap, odone>>
           ELSE IF RevertReturns(view, wait, chain_id_ok)
           THEN /\ iresp' = TransactionReverted(view, tx_hash)
                /\ verification_request' = IF view = "issue" THEN "none" ELSE "rejected"
                /\ UNCHANGED <<cred, snap, odone>>
           ELSE /\ IF credential_id # 0
                   THEN /\ credential_id \notin odone
                        /\ cred' = CredUpdateOrCreate(credential_id,
                                       OrchDefaults(credential_id, tx_hash, revoked))
                        /\ snap' = NoSnap
                        /\ odone' = odone \cup {credential_id}
                   ELSE UNCHANGED <<cred, snap, odone>>
                /\ iresp' = IF view = "issue" /\ ~chain_id_ok2 THEN ServerError
                            ELSE Submitted(view, tx_hash, credential_id)
                /\ verification_request' = IF view = "issue" THEN "none" ELSE "approved"
    /\ inst' = IF view = "student_verify"
               THEN InstGetOrCreate(Lower(InstAddr), "Verified Institution")
               ELSE inst
    /\ UNCHANGED <<chain, reorgs, checkpoint, issuedEv, revokedEv, pc, last_block,
                   to_block, queue, event_obj, credential, runFailed, skipped, projRevoked,
                   opc, ocid, otx, orev, verVars, issVars, revVars, normVars, other>>

\* The client has received the Response of the issuance view.
IssueResponded ==
    /\ iresp # NoResp
    /\ iresp' = NoResp
    /\ verification_request' = "none"
    /\ UNCHANGED <<chain, reorgs, idxVars, orchVars, verVars, issVars, revVars, normVars, other>>

\* No issue_credential call has begun.
InitIssIdle ==
    /\ base = 0
    /\ sent = <<>>
    /\ ipc = [p \in Calls |-> "idle"]
    /\ next_nonce = [p \in Calls |-> 0]
    /\ n_read = [p \in Calls |-> 0]
    /\ nonce_reads = [p \in Calls |-> 0]
    /\ loc = [p \in Calls |-> NoLocals]

\* No verification request is made.
InitVerIdle ==
    /\ now = 1
    /\ contract = [c \in CredIds |-> NoContractCred]
    /\ vreq = NoReq
    /\ vcalls = NoCalls
    /\ vresp = NoResp

\* Empty event tables, a checkpoint of 0, no run and no request in flight.
InitTables ==
    /\ other = IdleLocals
    /\ rresp = NoResp
    /\ iresp = NoResp
    /\ verification_request = "none"
    /\ reorgs = 0
    /\ checkpoint = 0
    /\ issuedEv = {}
    /\ revokedEv = {}
    /\ pc = "idle"
    /\ last_block = 0
    /\ to_block = 0
    /\ queue = <<>>
    /\ event_obj = NoEvent
    /\ credential = NoRow
    /\ runFailed = FALSE
    /\ skipped = {}
    /\ projRevoked = {}
    /\ snap = NoSnap
    /\ opc = "idle"
    /\ ocid = 0
    /\ otx = 0
    /\ orev = FALSE
    /\ odone = {}

\* The same, and no fingerprint supplied for normalization.
InitCache ==
    /\ InitTables
    /\ supplied = NoSupplied
    /\ cleaned = NoCleaned

\* Everything but the credentials and institutions tables and the verification
\* inputs: an empty chain, empty event tables, no run and no request in flight.
InitIdle ==
    /\ chain = <<>>
    /\ InitCache

Init ==
    /\ InitIdle
    /\ cred = {}
    /\ inst \in {{}, {RegisteredInst}}
    /\ InitVerIdle
    /\ InitIssIdle

ChainNext ==
    \/ ChainEmptyBlock
    \/ ChainIssue
    \/ \E c \in CredIds : ChainRevoke(c)

IndexNext ==
    \/ IndexStart
    \/ IndexNoop
    \/ IndexProcessIssued
    \/ IndexSyncIssued
    \/ IndexFetchRevoked
    \/ IndexProcessRevoked
    \/ IndexSyncRevokedGet
    \/ IndexSyncRevokedSave
    \/ IndexCommit
    \/ IndexCrash

OrchNext ==
    \/ \E c \in CredIds : OrchReceipt(c)
    \/ OrchReadStatus
    \/ OrchWrite

Next == ChainNext \/ IndexNext \/ OrchNext

Spec == Init /\ [][Next]_vars

\* The indexer on a chain whose head rises, stands still or falls between runs.
NextReorg == ChainNext \/ ChainReorg \/ IndexNext

SpecReorg == Init /\ [][NextReorg]_vars

\* -------------------------------------- specification with the revocation path
RevokeNext == (\E c \in CredIds : RevokeView(c)) \/ RevokeDone

NextRevoke == ChainNext \/ IndexNext \/ OrchNext \/ RevokeNext

SpecRevoke == Init /\ [][NextRevoke]_vars

\* ------------------------------------------- specification of a batch of logs
\* The chain holds MaxLogs issuance logs in consecutive blocks, then possibly the
\* revocation of the first credential or of every one of them; the indexer starts
\* from an empty cache.
IssuedBlocks == [b \in 1..MaxLogs |-> IssuedLog(b)]

InitBatch ==
    /\ InitCache
    /\ chain \in {IssuedBlocks, Append(IssuedBlocks, RevokedLog(1)),
                  IssuedBlocks \o [b \in 1..MaxLogs |-> RevokedLog(b)]}
    /\ cred = {}
    /\ inst = {RegisteredInst}
    /\ InitVerIdle
    /\ InitIssIdle

SpecBatch == InitBatch /\ [][IndexNext]_vars

\* ------------------------------------------------ specification with scheduling
\* Celery beat keeps scheduling index_blockchain_events and a started run or view
\* goes on to its end.
SpecLive == Init /\ [][Next]_vars /\ WF_vars(IndexNext) /\ WF_vars(OrchNext)

\* ------------------------------- specification of two overlapping indexer runs
NextOverlap == IndexNext \/ IndexSwitch

SpecOverlap == InitBatch /\ [][NextOverlap]_vars

\* --------------------------- specification of a batch of logs with scheduling
\* The chain head stands still and celery beat keeps scheduling the task.
SpecSteady == InitBatch /\ [][IndexNext]_vars /\ WF_vars(IndexNext)

\* ------------------------------ specification with reorganisations and scheduling
\* Blocks keep being mined up to the bound and the indexer keeps being scheduled.
SpecReorgLive ==
    Init /\ [][NextReorg]_vars /\ WF_vars(IndexNext) /\ WF_vars(ChainNext)

\* ----------------------------------------- specification of the verification view
\* The rows the two writers can leave for credential c: the fingerprint with the
\* 0x of HexBytes.hex() or without it, any expiry, revoked or not.
VerRows(c) ==
    {[id |-> 1, credential_id |-> c, institution |-> RegisteredInst.address,
      fingerprint |-> f, expires_at |-> e, revoked |-> r, revoked_at |-> 0,
      revocation_reason_hash |-> <<>>, transaction_hash |-> 0, student_name |-> ""] :
        f \in {HexOf(ChainFp(c)), ChainFp(c)}, e \in 0..MaxTime, r \in BOOLEAN}

ContractCreds(c) ==
    {NoContractCred}
    \cup {[exists |-> TRUE, fingerprint |-> ChainFp(c), valid |-> v[1], revoked |-> v[2]] :
            v \in {<<TRUE, FALSE>>, <<FALSE, TRUE>>, <<FALSE, FALSE>>}}

Prefixes == {<<>>, <<"0", "x">>, <<"0", "X">>, <<"0", "x", "0", "X">>}
Bodies == {<<"a", "b">>, <<"A", "B">>, <<"a", "B">>, <<"b", "a">>, <<"b", "b">>,
           <<"a">>, <<"a", "g">>}
FpInputs == {p \o b : p \in Prefixes, b \in Bodies}

\* The cache holds at most one credential, the contract at most one, the clock
\* stands at any time of the range.
InitVerify ==
    /\ InitIdle
    /\ inst = {RegisteredInst}
    /\ cred \in {{}} \cup {{r} : r \in UNION {VerRows(c) : c \in CredIds}}
    /\ now \in 1..MaxTime
    /\ contract \in UNION {{[c \in CredIds |-> IF c = k THEN x ELSE NoContractCred] :
                              x \in ContractCreds(k)} : k \in CredIds}
    /\ vreq = NoReq
    /\ vcalls = NoCalls
    /\ vresp = NoResp
    /\ InitIssIdle

\* The client has received the Response; the next request can come.
VerifyDone ==
    /\ vreq # NoReq
    /\ vreq' = NoReq
    /\ vcalls' = NoCalls
    /\ vresp' = NoResp
    /\ UNCHANGED <<chain, reorgs, idxVars, orchVars, now, contract, issVars, revVars, respVars, normVars, other>>

\* Requests are answered one after the other.
VerifyRequest ==
    /\ vreq = NoReq
    /\ \E c \in CredIds, fingerprint \in FpInputs, configured, rpc_ok1, rpc_ok2 \in BOOLEAN :
         VerifyFromLink(c, fingerprint, configured, rpc_ok1, rpc_ok2)

NextVerify == VerifyRequest \/ VerifyDone

SpecVerify == InitVerify /\ [][NextVerify]_vars

\* --------------------------------- specification of the three read-only views
ReadRequest ==
    /\ vreq = NoReq
    /\ \/ \E c \in CredIds, fingerprint \in FpInputs, configured, rpc_ok \in BOOLEAN :
            VerifyCredential(c, fingerprint, configured, rpc_ok)
       \/ \E c \in CredIds, configured, rpc_ok \in BOOLEAN :
            CredentialStatus(c, configured, rpc_ok)

NextRead == VerifyRequest \/ ReadRequest \/ VerifyDone

SpecRead == InitVerify /\ [][NextRead]_vars

\* ------------------------------------- specification of the institutions table
\* Credential 1 was issued and revoked on chain; no cache row exists yet.
InitInst ==
    /\ InitCache
    /\ chain = <<IssuedLog(1), RevokedLog(1)>>
    /\ cred = {}
    /\ inst \in {{}, {[RegisteredInst EXCEPT !.is_active = FALSE]}}
    /\ InitVerIdle
    /\ InitIssIdle

InstNext ==
    \/ \E value \in Addresses : RegisterInstitution(value)
    \/ \E u \in 1..MaxUsers, address \in Addresses : ProfileUpdate(u, address)
    \/ \E submitted \in BOOLEAN :
            IssueRespond("student_verify", submitted, ChainHead + 1, "timeout", TRUE, FALSE,
                         TRUE, TRUE)
    \/ IssueResponded

NextInst == IndexNext \/ InstNext

SpecInst == InitInst /\ [][NextInst]_vars

\* --------------------------------- specification of the indexer beside the views
\* Credential 1 was issued and revoked on chain; the indexer runs while the views
\* answer requests, one request at a time.
InitOwners ==
    /\ InitCache
    /\ chain = <<IssuedLog(1), RevokedLog(1)>>
    /\ cred = {}
    /\ inst = {RegisteredInst}
    /\ InitVerIdle
    /\ InitIssIdle

NoRequest == vreq = NoReq /\ iresp = NoResp /\ rresp = NoResp

ViewRequest ==
    /\ NoRequest
    /\ \/ \E c \in CredIds : RevokeView(c)
       \/ \E view \in Views, submitted, chain_id_ok, decoded \in BOOLEAN,
             b \in 1..(ChainHead + 1), wait \in {"mined", "reverted", "timeout"} :
               IssueRespond(view, submitted, b, wait, chain_id_ok, decoded, TRUE, TRUE)
       \/ \E c \in CredIds, fingerprint \in {HexOf(ChainFp(1)), <<"a">>},
             configured \in BOOLEAN :
               \/ VerifyFromLink(c, fingerprint, configured, TRUE, TRUE)
               \/ VerifyCredential(c, fingerprint, configured, TRUE)
               \/ CredentialStatus(c, configured, TRUE)

ViewDone == RevokeDone \/ IssueResponded \/ VerifyDone

NextOwners == IndexNext \/ OrchNext \/ ViewRequest \/ ViewDone

SpecOwners == InitOwners /\ [][NextOwners]_vars

\* ------------------------------------------------ specification of the issuance
InitIssue ==
    /\ InitIdle
    /\ cred = {}
    /\ inst = {RegisteredInst}
    /\ InitVerIdle
    /\ base \in 0..MaxBase
    /\ sent = <<>>
    /\ ipc = [p \in Calls |-> "idle"]
    /\ next_nonce = [p \in Calls |-> 0]
    /\ n_read = [p \in Calls |-> 0]
    /\ nonce_reads = [p \in Calls |-> 0]
    /\ loc = [p \in Calls |-> NoLocals]

NextIssue ==
    \E p \in Calls :
        \/ IssueBegin(p)
        \/ IssueSetRegistrar(p)
        \/ IssueUpsertInstitution(p)
        \/ IssueRecheck(p)
        \/ IssueSetController(p)
        \/ IssueWaitReceipt(p)
        \/ IssueSend(p)

SpecIssue == InitIssue /\ [][NextIssue]_vars

\* ------------------------- specification of overlapping operations of a signer
\* The cache holds the row of credential 1, so that the revoke view reaches
\* revoke_credential while issue_credential calls are between two of their steps.
InitSigner ==
    /\ InitIdle
    /\ cred = {r \in VerRows(1) :
                  r.fingerprint = HexOf(ChainFp(1)) /\ r.expires_at = 0 /\ ~r.revoked}
    /\ inst = {RegisteredInst}
    /\ InitVerIdle
    /\ base \in 0..MaxBase
    /\ sent = <<>>
    /\ ipc = [p \in Calls |-> "idle"]
    /\ next_nonce = [p \in Calls |-> 0]
    /\ n_read = [p \in Calls |-> 0]
    /\ nonce_reads = [p \in Calls |-> 0]
    /\ loc = [p \in Calls |-> NoLocals]

NextSigner == NextIssue \/ RevokeNext

SpecSigner == InitSigner /\ [][NextSigner]_vars

\* ------------------------------------- specification of the issuance Response
InitRespond ==
    /\ InitIdle
    /\ cred = {}
    /\ inst = {RegisteredInst}
    /\ InitVerIdle
    /\ InitIssIdle

IssueRequest ==
    \E view \in Views, submitted, chain_id_ok, decoded, rpc_ok, chain_id_ok2 \in BOOLEAN,
       b \in 1..(MaxBlock + 1), wait \in {"mined", "reverted", "timeout"} :
        IssueRespond(view, submitted, b, wait, chain_id_ok, decoded, rpc_ok, chain_id_ok2)

NextRespond == ChainNext \/ IssueRequest \/ IssueResponded

SpecRespond == InitRespond /\ [][NextRespond]_vars

\* ------------------------------- specification of the fingerprint normalizations
\* h: HexLen hexadecimal characters in any letter case.
CasedHexChars == HexChars \cup {"A", "B"}
Hs == {h \in [1..HexLen -> CasedHexChars] : TRUE}

\* No, one or two prefixes, each 0x or 0X.
OnePrefix == {<<"0", "x">>, <<"0", "X">>}
LeadingPrefixes == {<<>>} \cup OnePrefix \cup {p \o q : p, q \in OnePrefix}

InitNormalize ==
    /\ chain = <<>>
    /\ InitTables
    /\ cred = {}
    /\ inst = {RegisteredInst}
    /\ InitVerIdle
    /\ InitIssIdle
    /\ supplied \in [prefixes : LeadingPrefixes, h : Hs]
    /\ cleaned = NoCleaned

SpecNormalize == InitNormalize /\ [][Normalize]_vars

\* ------------------------------------------------------------------ claims
\* C1: once the Credential row of an id has revoked = true, it has revoked = true
\* in every later state, across indexer runs, replays and optimistic writes.
C1_RevokedNeverReset ==
    [][\A r \in cred : r.revoked =>
          \E r2 \in cred' : r2.credential_id = r.credential_id /\ r2.revoked]_vars

\* C2: whenever the checkpoint is c, every CredentialIssued and CredentialRevoked
\* log on chain at a block <= c has its own record in the event tables.
C2_CheckpointCoversLogs ==
    \A b \in 1..Min(checkpoint, ChainHead) :
        /\ chain[b].kind = "issued" =>
              \E r \in issuedEv : WithoutId(r) = IssuedRow(LogAt(b))
        /\ chain[b].kind = "revoked" =>
              \E r \in revokedEv : WithoutId(r) = RevokedRow(LogAt(b))

\* C3: a second run over the same block range (the first one crashed after its
\* upserts and before the checkpoint write, the chain did not change) leaves the
\* event, Credential and Institution tables as they were after the first run.
C3_ReplayLeavesTables ==
    (snap.taken /\ pc = "revoked" /\ queue = <<>>)
        => Tables = snap.tables

\* C4: the stored last_processed_block never decreases from one state to the
\* next, whether the chain head rises, stands still or falls between runs.
C4_CheckpointNeverDecreases == [][checkpoint' >= checkpoint]_vars

\* C4 witness: a run has advanced the checkpoint and the head has then fallen
\* below it, with the indexer ready to run again.
C4_Witness == pc = "idle" /\ checkpoint > 0 /\ ChainHead < checkpoint

\* C5: a run during which something failed ends with the checkpoint equal to its
\* value at the start of the run.
C5_FailedRunKeepsCheckpoint ==
    [][(pc # "idle" /\ pc' = "idle" /\ runFailed) => checkpoint' = last_block]_vars

\* C6: when the optimistic write and the indexer's projections of one credential
\* id have both happened, in any interleaving, the resulting row has
\* revoked = true if the indexer projected a revocation for that id.
C6_RevocationSurvivesRace ==
    (pc = "idle" /\ opc = "idle") =>
        \A c \in projRevoked \cap odone : CredExists(c) /\ CredRow(c).revoked

\* What section 4.3 of the specification calls normalisation: the leading 0x / 0X
\* prefixes stripped, the rest in lower case.
Normalized(s) == Lower(StripLeading0x(s))

VerifiedFromCache == vreq.credential_id # 0 /\ CredExists(vreq.credential_id)

\* C7: for a cached credential verify_from_link answers TAMPERED with
\* fingerprint_match = false when the normalised fingerprints differ, whatever the
\* revoked / expiry state; otherwise fingerprint_match = true with VALID when the
\* credential is neither revoked nor expired and INVALID else, revoked = true
\* when it is revoked and expired = true when its expiry is past; the source is
\* 'cache' and the HTTP status 200.
C7_CacheDecisionTable ==
    VerifiedFromCache =>
        LET row == CredRow(vreq.credential_id)
            past == row.expires_at # 0 /\ row.expires_at < now
        IN  /\ vresp.http = 200
            /\ vresp.source = "cache"
            /\ IF Normalized(row.fingerprint) # Normalized(vreq.fingerprint)
               THEN vresp.status = "TAMPERED" /\ vresp.fingerprint_match = FALSE
               ELSE /\ vresp.fingerprint_match = TRUE
                    /\ vresp.status = IF ~row.revoked /\ ~past THEN "VALID" ELSE "INVALID"
                    /\ row.revoked => vresp.revoked
                    /\ past => vresp.expired

\* C7 witness: a doubly prefixed, upper-case fingerprint matched the row of an
\* expired, not revoked credential and the answer was INVALID.
C7_Witness ==
    /\ VerifiedFromCache
    /\ vreq.fingerprint = <<"0", "x", "0", "X", "A", "B">>
    /\ vresp.status = "INVALID"
    /\ vresp.fingerprint_match
    /\ vresp.expired
    /\ ~vresp.revoked

VerifiedFromChain == vreq.credential_id # 0 /\ vcalls.verify # "not_called"

\* C8: for an id absent from the cache, when the chain's fingerprint verification
\* returns false the answer is TAMPERED if the credential exists on chain and
\* NOT_FOUND if it does not, and never VALID.
C8_FalseMeansTamperedOrNotFound ==
    (VerifiedFromChain /\ vcalls.verify = "false") =>
        /\ vresp.status # "VALID"
        /\ contract[vreq.credential_id].exists => vresp.status = "TAMPERED"
        /\ ~contract[vreq.credential_id].exists => vresp.status = "NOT_FOUND"

\* C9: for an id absent from the cache, when the chain fingerprint verification
\* fails (verify_fingerprint returns None) the answer is a service-unavailable
\* error and carries no verdict.
C9_ChainFailureIsUnavailable ==
    (/\ VerifiedFromChain
     /\ vcalls.verify = "none"
     /\ Len(FingerprintClean(vreq.fingerprint)) = HexLen
     /\ IsHex(FingerprintClean(vreq.fingerprint))) =>
        /\ vresp.http = 503
        /\ "status" \notin DOMAIN vresp

\* The transactions call p has broadcast, in send order.
TxsOf(p) == SelectSeq(sent, LAMBDA t : t.call = p)

\* The call found all three bootstrap transactions required.
AllThreeRequired(p) ==
    /\ loc[p].super_admin
    /\ ~loc[p].is_registrar
    /\ ~loc[p].inst_exists \/ ~loc[p].inst_is_active
    /\ ~loc[p].can_issue

Ended(p) == ipc[p] \in {"done", "failed"}

\* C10 as stated: every call that has ended read the pending count n once and
\* broadcast k transactions, 1 <= k <= 4, with the nonces n .. n+k-1 in send
\* order, four of them when all three bootstrap transactions were required.
C10_EveryCallSendsItsSequence ==
    \A p \in Calls :
        Ended(p) =>
            /\ nonce_reads[p] = 1
            /\ Len(TxsOf(p)) \in 1..4
            /\ \A i \in 1..Len(TxsOf(p)) : TxsOf(p)[i].nonce = n_read[p] + i - 1
            /\ (AllThreeRequired(p) /\ ipc[p] = "done") => Len(TxsOf(p)) = 4

\* C10, amended: a call reads the pending count n at most once and the
\* transactions it has broadcast, at most four, carry n, n+1, ... in send order;
\* a call that returned a transaction hash read n exactly once and broadcast
\* k >= 1 transactions, exactly four when all three bootstrap transactions were
\* required.
C10_NonceSequence ==
    \A p \in Calls :
        /\ nonce_reads[p] <= 1
        /\ Len(TxsOf(p)) <= 4
        /\ \A i \in 1..Len(TxsOf(p)) : TxsOf(p)[i].nonce = n_read[p] + i - 1
        /\ ipc[p] = "done" =>
            /\ nonce_reads[p] = 1
            /\ Len(TxsOf(p)) >= 1
            /\ AllThreeRequired(p) => Len(TxsOf(p)) = 4

\* C10 witness: a call that began at a pending count above zero has returned
\* after the three bootstrap transactions and the issuance.
C10_Witness ==
    \E p \in Calls :
        /\ ipc[p] = "done"
        /\ AllThreeRequired(p)
        /\ n_read[p] > 0
        /\ Len(TxsOf(p)) = 4
        /\ TxsOf(p)[4].fn = "issueCredential"
        /\ TxsOf(p)[4].nonce = n_read[p] + 3

\* C11: a run that starts while the stored checkpoint equals or exceeds the chain
\* head queries no logs, upserts no event, Credential or Institution row and
\* leaves the checkpoint as it is: from such a state no step enters the run's
\* loops, fills the queue of fetched logs, or changes a table or the checkpoint.
C11_NothingNewNothingDone ==
    [][(pc = "idle" /\ checkpoint >= ChainHead) =>
          /\ pc' = "idle"
          /\ queue' = <<>>
          /\ checkpoint' = checkpoint
          /\ issuedEv' = issuedEv
          /\ revokedEv' = revokedEv
          /\ cred' = cred
          /\ inst' = inst]_vars

\* C11 witness: the indexer is idle with rows in its tables, and the checkpoint
\* stands at the head, where the only run that can start is the one that returns
\* early.
C11_Witness ==
    /\ pc = "idle"
    /\ checkpoint = ChainHead
    /\ issuedEv # {}
    /\ cred # {}
    /\ NothingNew(ToBlock(get_last_block, ChainHead), get_last_block)

\* C12: after any sequence of indexer runs, replays included, the issued-event
\* table and the revoked-event table each hold at most one row per transaction
\* identifier: a transaction seen again overwrites its row and adds none.
C12_OneRowPerTransaction ==
    /\ \A r1, r2 \in issuedEv : r1.transaction_hash = r2.transaction_hash => r1 = r2
    /\ \A r1, r2 \in revokedEv : r1.transaction_hash = r2.transaction_hash => r1 = r2

\* C12 witness: the run that follows a crashed run over the same range has just
\* upserted the issuance log again, and the tables hold one row for each log.
C12_Witness ==
    /\ snap.taken
    /\ pc = "sync_issued"
    /\ Cardinality(issuedEv) = 1
    /\ Cardinality(revokedEv) = 1
    /\ \E r \in issuedEv : r.transaction_hash = event_obj.transaction_hash

\* C13: in every reachable state there is at most one Credential row per
\* credential id, whichever of sync_credential_issued and the optimistic write
\* of the issuance views reaches the id first.
C13_OneRowPerCredential ==
    \A r1, r2 \in cred : r1.credential_id = r2.credential_id => r1 = r2

\* C13 witness: the optimistic write of an id is done, a run of the indexer has
\* fetched, upserted and projected the issuance log without a failure, and the
\* table holds one row.
C13_Witness ==
    /\ pc = "issued"
    /\ queue = <<>>
    /\ ~runFailed
    /\ last_block = 0
    /\ \E r \in issuedEv : r.block_number <= to_block /\ r.credential_id \in odone
    /\ Cardinality(cred) = 1

\* C14: the optimistic write of issue / student_verify leaves the revoked flag
\* of every Credential row that already exists as it was.
C14_OptimisticWriteKeepsRevoked ==
    [][(opc = "write" /\ opc' = "idle") =>
          \A r \in cred : \E r2 \in cred' : /\ r2.credential_id = r.credential_id
                                            /\ r2.revoked = r.revoked]_vars

\* C15: the revoke view, whether it submits the transaction or fails, leaves
\* every Credential, Institution and event row and the checkpoint as they were,
\* and the revoked flag of a cached credential changes only in the step in which
\* the indexer saves the projection of a CredentialRevoked event of that id.
C15_RevokePathLeavesCache ==
    [][/\ (rresp = NoResp /\ rresp' # NoResp) =>
             /\ cred' = cred
             /\ inst' = inst
             /\ issuedEv' = issuedEv
             /\ revokedEv' = revokedEv
             /\ checkpoint' = checkpoint
       /\ \A r \in cred : \A r2 \in cred' :
             (r2.credential_id = r.credential_id /\ r2.revoked # r.revoked) =>
                 /\ pc = "save_revoked"
                 /\ pc' = "revoked"
                 /\ event_obj.credential_id = r.credential_id]_vars

\* sync_credential_revoked is about to look up credential c, which the cache does
\* not hold: the CredentialRevoked log of c is skipped with a warning.
RevocationSkipped(c) ==
    pc = "sync_revoked" /\ event_obj.credential_id = c /\ ~CredExists(c)

\* C16: when the revocation of a credential was skipped because the cache had no
\* row of it, then from the moment the row exists, and with indexer runs being
\* scheduled for ever, the row eventually has revoked = true.
C16_SkippedRevocationReconciled ==
    \A c \in CredIds :
        [](RevocationSkipped(c) => [](CredExists(c) => <>(CredExists(c) /\ CredRow(c).revoked)))

\* The run has visited every log it fetched; what is left is the checkpoint write.
AtCommit == pc = "revoked" /\ queue = <<>>

\* The log of block b was upserted and projected.
Processed(b) ==
    /\ chain[b].kind = "issued" =>
          /\ \E r \in issuedEv : WithoutId(r) = IssuedRow(LogAt(b))
          /\ CredExists(chain[b].cid)
    /\ chain[b].kind = "revoked" =>
          /\ \E r \in revokedEv : WithoutId(r) = RevokedRow(LogAt(b))
          /\ \/ chain[b].cid \in projRevoked
             \/ Skip(TxHash(b), "no_credential") \in skipped

C18_RevertIsExplicitError ==
    [][\A view \in Views, b \in 1..(MaxBlock + 1),
          chain_id_ok, decoded, rpc_ok, chain_id_ok2 \in BOOLEAN :
          IssueRespond(view, TRUE, b, "reverted", chain_id_ok, decoded, rpc_ok, chain_id_ok2)
          => /\ iresp' = TransactionReverted(view, TxHash(b))
             /\ iresp'.transaction_hash = TxHash(b)
             /\ cred' = cred
             /\ iresp' # SubmissionFailed]_vars

\* What a Response says about the transaction: an error denies it, a 201 or a
\* status of "approved" affirms it.
AssertsFailure(resp) == "error" \in DOMAIN resp
AssertsSuccess(resp) ==
    resp.http = 201 \/ ("status" \in DOMAIN resp /\ resp.status = "approved")

\* C19: when the wait for the issuance receipt times out, the Response is none
\* of those given for a transaction that was mined with success (its credential
\* id decoded or not) nor the revert Response, and it asserts neither success
\* nor failure of the transaction.
C19_TimeoutIsDistinctOutcome ==
    [][\A view \in Views, b \in 1..(MaxBlock + 1),
          chain_id_ok, decoded, rpc_ok, chain_id_ok2 \in BOOLEAN :
          IssueRespond(view, TRUE, b, "timeout", chain_id_ok, decoded, rpc_ok, chain_id_ok2)
          => /\ \A c \in 0..MaxCred : iresp' # Submitted(view, TxHash(b), c)
             /\ iresp' # TransactionReverted(view, TxHash(b))
             /\ ~AssertsFailure(iresp')
             /\ ~AssertsSuccess(iresp')]_vars

\* C20: for a value h of HexLen hexadecimal characters and a supplied string made
\* of no, one or two 0x / 0X prefixes followed by h in any letter case, the
\* normalizations of verify_from_link, verify_credential and _normalize_0x_hex
\* all yield h in lower case, and normalizing that result again leaves it as it is.
C20_NormalizationsAgree ==
    cleaned.applied =>
        \A k \in Normalizations :
            /\ cleaned.once[k] = Lower(supplied.h)
            /\ cleaned.twice[k] = cleaned.once[k]

\* What is left of the supplied fingerprint is HexLen hexadecimal characters.
WellFormed(fingerprint) ==
    Len(Normalized(fingerprint)) = HexLen /\ IsHex(Normalized(fingerprint))

\* C21: a supplied fingerprint that is not HexLen hexadecimal characters once its
\* prefixes are stripped is answered by verify_from_link with a validation error
\* (400), with no answer from the cache and no call of the chain client.
C21_MalformedFingerprintRejected ==
    (vreq # NoReq /\ ~WellFormed(vreq.fingerprint))
        => /\ vresp.http = 400
           /\ vcalls = NoCalls

\* The row the request in flight was answered from.
AnsweredFromCache ==
    /\ vreq # NoReq
    /\ vresp.http = 200
    /\ vresp.source = "cache"
    /\ "valid" \in DOMAIN vresp

\* C22: the validity that verify_from_link, verify_credential and
\* credential_status report from the cache is true exactly when the row is not
\* revoked and has no expiry or an expiry strictly later than the current time.
C22_ValidityFromRow ==
    AnsweredFromCache =>
        LET row == CredRow(vreq.credential_id)
        IN  vresp.valid = (~row.revoked /\ (row.expires_at = 0 \/ row.expires_at > now))

\* C23: a request of verify_from_link for a cached credential whose fingerprint
\* it does not match gets the answer it would get were any other fingerprint
\* stored that it does not match either: the answer holds nothing of the stored
\* fingerprint.
C23_NoStoredFingerprintInAnswer ==
    (vreq # NoReq /\ CredExists(vreq.credential_id)) =>
        LET row == CredRow(vreq.credential_id)
            fingerprint_clean == FingerprintClean(vreq.fingerprint)
        IN  \A f \in FpInputs :
                (/\ CredentialFp(row.fingerprint) # fingerprint_clean
                 /\ CredentialFp(f) # fingerprint_clean)
                => vresp = CacheResponse(vreq.credential_id,
                                         [row EXCEPT !.fingerprint = f],
                                         fingerprint_clean, now)

\* C24: every Institution row has its address in lower case, and no two rows
\* have addresses that differ only by letter case.
C24_InstitutionAddressCanonical ==
    /\ \A r \in inst : r.address = Lower(r.address)
    /\ \A r1, r2 \in inst : Lower(r1.address) = Lower(r2.address) => r1 = r2

\* An account registered with a checksum address beside the institution the
\* indexer created from an event, and a profile moved to another address.
C24_Witness ==
    /\ \E r \in inst : r.user # 0 /\ r.address = <<"0", "x", "b", "a">>
    /\ \E r \in inst : r.user = 0 /\ r.address = Lower(InstAddr)
    /\ Cardinality(inst) >= 2

\* A step of issue, student_verify, revoke, verify_from_link, verify_credential
\* or credential_status.
ViewStep ==
    \/ opc' # opc
    \/ iresp' # iresp
    \/ rresp' # rresp
    \/ vresp' # vresp

\* C25: the steps of issue, student_verify, revoke, verify_from_link,
\* verify_credential and credential_status leave the issued-event and
\* revoked-event tables and the checkpoint as they are; these change only in a
\* step of a run of index_blockchain_events.
C25_OnlyIndexerWritesEvents ==
    [][/\ ViewStep => UNCHANGED <<issuedEv, revokedEv, checkpoint>>
       /\ ~UNCHANGED <<issuedEv, revokedEv, checkpoint>> => pc # "idle"]_vars

\* A view has written its Credential row between two upserts of a run, with an
\* event row stored and the checkpoint still to be moved.
C25_Witness ==
    /\ issuedEv # {}
    /\ pc # "idle"
    /\ odone # {}
    /\ \E r \in cred : r.transaction_hash # 0

\* The cache agrees with the canonical chain: every log of the chain has its event
\* row, and every Credential row is of a credential issued on the chain and is
\* revoked only if the chain holds its revocation.
CacheInLine ==
    /\ \A b \in 1..ChainHead :
         /\ chain[b].kind = "issued"
              => \E r \in issuedEv : WithoutId(r) = IssuedRow(LogAt(b))
         /\ chain[b].kind = "revoked"
              => \E r \in revokedEv : WithoutId(r) = RevokedRow(LogAt(b))
    /\ \A r \in cred :
         /\ OnChain("issued", r.credential_id)
         /\ r.revoked => OnChain("revoked", r.credential_id)

\* C26: once a reorganisation has left the head below the stored checkpoint, the
\* cache eventually agrees with the canonical chain: the logs of the replacing
\* blocks are indexed and no Credential state of the orphaned blocks remains.
C26_ReorgIsReconciled == [](checkpoint > ChainHead => <>CacheInLine)

\* The logs of one kind in the blocks first .. last, in block order.
RangeLogs(kind, first, last) ==
    SelectSeq([i \in 1..(last - first + 1) |-> LogAt(first + i - 1)],
              LAMBDA l : l.kind = kind)

\* C27: a run that starts with checkpoint c and head h takes the range
\* c+1 .. min(c + BatchSize, h), queries the issued logs and then the revoked logs
\* of exactly that range, and a checkpoint write stores the end of the range of a
\* run that began at the checkpoint; so the ranges of consecutive successful runs
\* follow one another without gap or overlap.
C27_RangeOfARun ==
    [][/\ (pc = "idle" /\ pc' # "idle") =>
            /\ last_block' = checkpoint
            /\ to_block' = Min(checkpoint + BatchSize, ChainHead)
            /\ to_block' > checkpoint
            /\ queue' \in {<<>>, RangeLogs("issued", checkpoint + 1, to_block')}
       /\ (pc = "issued" /\ pc' = "revoked") =>
            /\ <<last_block', to_block'>> = <<last_block, to_block>>
            /\ queue' \in {<<>>, RangeLogs("revoked", last_block + 1, to_block)}
       /\ checkpoint' # checkpoint =>
            /\ last_block = checkpoint
            /\ checkpoint' = to_block
            /\ checkpoint < checkpoint'
            /\ checkpoint' <= Min(checkpoint + BatchSize, ChainHead)]_vars

\* Two successful runs have brought the checkpoint to the head, the second one
\* over the blocks that follow the range of the first.
C27_Witness ==
    /\ pc = "idle"
    /\ checkpoint = MaxBlock
    /\ checkpoint > BatchSize
    /\ \A b \in 1..ChainHead :
         chain[b].kind = "issued" => \E r \in issuedEv : r.block_number = b

\* The CredentialIssued log of block b has its event row and its Credential row.
IssuedDone(b) ==
    /\ \E r \in issuedEv : WithoutId(r) = IssuedRow(LogAt(b))
    /\ CredExists(chain[b].cid)

\* The run is projecting a CredentialRevoked log of its range.
ProjectingRevoked == pc \in {"sync_revoked", "save_revoked"}

\* C28: within one run, while a CredentialRevoked log of the range is projected,
\* every CredentialIssued log of the range has been upserted and projected; and
\* a revocation whose issuance lies in the same range and was projected is not
\* skipped for a missing Credential row: the lookup finds the row and a save that
\* does not raise leaves it revoked.
C28_IssuedBeforeRevoked ==
    [][/\ ProjectingRevoked =>
            \A b \in (last_block + 1)..Min(to_block, ChainHead) :
                chain[b].kind = "issued" => IssuedDone(b)
       /\ \A b \in (last_block + 1)..Min(to_block, ChainHead) :
            (/\ pc = "sync_revoked"
             /\ chain[b] = IssuedLog(event_obj.credential_id)
             /\ IssuedDone(b)
             /\ pc' \notin {pc, "idle"}) =>
                /\ pc' = "save_revoked"
                /\ Skip(event_obj.transaction_hash, "no_credential") \notin skipped'
       /\ (pc = "save_revoked" /\ pc' = "revoked" /\ skipped' = skipped) =>
            \E r \in cred' : r.credential_id = event_obj.credential_id /\ r.revoked]_vars

\* C29: a CredentialRevoked log whose credential has no Credential row has its
\* event row upserted, and the lookup that misses creates no Credential row, is
\* not counted as a failure of the run and leaves the remaining logs of the run
\* to be processed; the checkpoint write that ends such a run stores the end of
\* the range. When the row exists, a save that does not raise leaves it with
\* revoked = true and the timestamp and reason hash of the event.
C29_RevokedWithoutCredential ==
    [][/\ (/\ pc = "sync_revoked"
           /\ ~CredExists(event_obj.credential_id)
           /\ pc' \notin {pc, "idle"}) =>
              /\ \E r \in revokedEv : WithoutId(r) = event_obj
              /\ pc' = "revoked"
              /\ <<cred', revokedEv', queue', runFailed'>>
                    = <<cred, revokedEv, queue, runFailed>>
       /\ (/\ AtCommit
           /\ \E s \in skipped : s.why = "no_credential"
           /\ checkpoint' # checkpoint) => checkpoint' = to_block
       /\ (pc = "save_revoked" /\ pc' = "revoked" /\ skipped' = skipped) =>
              \E r \in cred' :
                  /\ r.id = credential.id
                  /\ r.credential_id = event_obj.credential_id
                  /\ r.revoked
                  /\ r.revoked_at = event_obj.revoked_at
                  /\ r.revocation_reason_hash = event_obj.reason_hash
                  /\ r.revocation_reason_hash # <<>>]_vars

\* C29 witness: a run has skipped the revocation of a credential the cache does
\* not hold, has gone on to project the revocation that followed it, and has
\* stored the end of its range.
C29_Witness ==
    /\ pc = "idle"
    /\ checkpoint = ChainHead
    /\ \E b1, b2 \in 1..ChainHead :
         /\ b1 < b2
         /\ b1 > checkpoint - BatchSize
         /\ chain[b1].kind = "revoked" /\ chain[b2].kind = "revoked"
         /\ \E r \in revokedEv : WithoutId(r) = RevokedRow(LogAt(b1))
         /\ ~CredExists(chain[b1].cid)
         /\ \E r \in cred : /\ r.credential_id = chain[b2].cid
                            /\ r.revoked
                            /\ r.revoked_at = LogAt(b2).revokedAt
                            /\ r.revocation_reason_hash = LogAt(b2).reasonHash

\* The contract functions of the transactions call p has broadcast, in send order.
Fns(p) == [i \in 1..Len(TxsOf(p)) |-> TxsOf(p)[i].fn]

\* The preflight of call p found the institution missing or inactive, or the
\* signer unable to issue for it, and the signer is the super-admin.
Bootstraps(p) ==
    /\ ~loc[p].inst_exists \/ ~loc[p].inst_is_active \/ ~loc[p].can_issue_preflight
    /\ loc[p].super_admin

\* The transactions the claim gives call p: each bootstrap transaction when its
\* own precondition is unmet, then the issuance.
Expected(p) ==
    (IF Bootstraps(p) /\ ~loc[p].is_registrar THEN <<"setRegistrar">> ELSE <<>>)
    \o (IF Bootstraps(p) /\ (~loc[p].inst_exists \/ ~loc[p].inst_is_active)
        THEN <<"upsertInstitution">> ELSE <<>>)
    \o (IF Bootstraps(p) /\ ~loc[p].can_issue
        THEN <<"setInstitutionController">> ELSE <<>>)
    \o <<"issueCredential">>

IsPrefix(s, t) == Len(s) <= Len(t) /\ s = SubSeq(t, 1, Len(s))

\* C30 as stated: every call that has ended sent the bootstrap transactions only
\* when the preconditions were unmet and the signer is the super-admin, each of
\* them iff its own precondition was unmet, and then the issuance; exactly one
\* transaction, the issuance, when the preconditions held or the signer is not
\* the super-admin.
C30_BootstrapAsStated ==
    \A p \in Calls : Ended(p) => Fns(p) = Expected(p)

\* C30, amended: a call that returned a transaction hash sent exactly that
\* sequence; a call that has not returned, or that failed because it was not
\* configured or a read, a send or a receipt wait raised, has sent a prefix of it
\* that stops before the issuance.
C30_BootstrapSequence ==
    \A p \in Calls :
        /\ IsPrefix(Fns(p), Expected(p))
        /\ ipc[p] = "done" <=> Fns(p) = Expected(p)

\* C30 witness: a call by the super-admin, already registrar, for an institution
\* that exists and is active but for which the signer could not issue, has
\* returned after setInstitutionController and the issuance.
C30_Witness ==
    \E p \in Calls :
        /\ ipc[p] = "done"
        /\ Bootstraps(p)
        /\ loc[p].is_registrar
        /\ loc[p].inst_exists /\ loc[p].inst_is_active
        /\ Fns(p) = <<"setInstitutionController", "issueCredential">>

\* The place of a contract function in the order of a call.
Rank(fn) ==
    CASE fn = "setRegistrar" -> 1
      [] fn = "upsertInstitution" -> 2
      [] fn = "setInstitutionController" -> 3
      [] fn = "issueCredential" -> 4

\* Where a call is once fn is broadcast: inside wait_for_transaction_receipt of
\* a bootstrap transaction, or returned with the hash of the issuance.
AfterBroadcast(fn) ==
    CASE fn = "setRegistrar" -> "wait_registrar"
      [] fn = "upsertInstitution" -> "wait_institution"
      [] fn = "setInstitutionController" -> "wait_controller"
      [] fn = "issueCredential" -> "done"

Waiting(p) == ipc[p] \in {"wait_registrar", "wait_institution", "wait_controller"}

\* C31: the transactions of one issue_credential call are broadcast in the order
\* setRegistrar, upsertInstitution, setInstitutionController, issueCredential;
\* a broadcast bootstrap transaction puts the call into the wait for its receipt,
\* nothing is broadcast from that wait, and the wait is left only with the
\* receipt or by failing; the issuance is the last transaction of the call, and
\* a call that failed (a send or a receipt wait raised) has sent no issuance.
C31_BroadcastOrder ==
    [][\A p \in Calls :
         /\ \A i, j \in 1..Len(Fns(p)) : i < j => Rank(Fns(p)[i]) < Rank(Fns(p)[j])
         /\ Waiting(p) => Fns(p) # <<>> /\ ipc[p] = AfterBroadcast(Fns(p)[Len(Fns(p))])
         /\ ipc[p] = "failed" => \A i \in 1..Len(Fns(p)) : Fns(p)[i] # "issueCredential"
         /\ (\E i \in 1..Len(Fns(p)) : Fns(p)[i] = "issueCredential") => ipc[p] = "done"
         /\ TxsOf(p)' # TxsOf(p) =>
              /\ ~Waiting(p)
              /\ Len(TxsOf(p)') = Len(TxsOf(p)) + 1
              /\ ipc'[p] = AfterBroadcast(TxsOf(p)'[Len(TxsOf(p)')].fn)
         /\ (Waiting(p) /\ ipc'[p] # ipc[p]) =>
              /\ ipc'[p] \in {AfterWait(ipc[p]), "failed"}
              /\ sent' = sent]_vars

\* C31 witness: a call has returned after broadcasting all four transactions,
\* each bootstrap transaction mined before the next was sent.
C31_Witness ==
    \E p \in Calls :
        /\ ipc[p] = "done"
        /\ Fns(p) = <<"setRegistrar", "upsertInstitution",
                      "setInstitutionController", "issueCredential">>

\* The Response carries no credential id.
NoCredentialId(resp) == "credential_id" \notin DOMAIN resp \/ resp.credential_id = 0

\* C32: the issuance view writes the Credential row only when the issuance was
\* submitted, mined with success status and its credential id decoded from the
\* receipt; when the submission fails, the transaction reverts, the receipt wait
\* times out or no event is decoded, the credentials table is left as it is, and
\* in the last two cases the caller gets 202 with the transaction hash and no
\* credential id.
C32_RowOnlyAfterMinedAndDecoded ==
    [][\A view \in Views, b \in 1..(MaxBlock + 1),
          wait \in {"mined", "reverted", "timeout"},
          submitted, chain_id_ok, decoded, rpc_ok, chain_id_ok2 \in BOOLEAN :
          IssueRespond(view, submitted, b, wait, chain_id_ok, decoded, rpc_ok,
                       chain_id_ok2) =>
            /\ cred' # cred => submitted /\ wait = "mined" /\ decoded
            /\ (~submitted \/ wait # "mined" \/ ~decoded) => cred' = cred
            /\ (submitted /\ (wait = "timeout" \/ (wait = "mined" /\ ~decoded))) =>
                 /\ iresp'.http = 202
                 /\ "transaction_hash" \in DOMAIN iresp'
                 /\ iresp'.transaction_hash = TxHash(b)
                 /\ NoCredentialId(iresp')]_vars

\* A verification (verify_from_link or verify_credential) of a credential the
\* cache holds has been answered, and not with the 400 of a malformed fingerprint.
VerifiedWhileCached ==
    /\ vreq.credential_id # 0
    /\ CredExists(vreq.credential_id)
    /\ "view" \in DOMAIN vreq => vreq.view = "verify_credential"
    /\ vresp.http # 400

\* C33: whenever a Credential row exists for the id, the verdict of a
\* verification, match or mismatch, comes from the cache and neither
\* verifyFingerprint nor credentialStatus is called on the chain.
C33_ChainOnlyWhenNotCached ==
    VerifiedWhileCached =>
        /\ vcalls = NoCalls
        /\ "source" \in DOMAIN vresp
        /\ vresp.source = "cache"

\* The outcome a verification Response names: its status, or ERROR for an error
\* Response.
Outcome(resp) ==
    IF "status" \in DOMAIN resp /\ "error" \notin DOMAIN resp THEN resp.status
    ELSE IF "error" \in DOMAIN resp /\ "status" \notin DOMAIN resp THEN "ERROR"
    ELSE "none"

\* How often a chain read was made, given what the call recorded of it.
Made(call) == IF call = "not_called" THEN 0 ELSE 1

\* C34: an answered verify_from_link call names exactly one of VALID, INVALID,
\* TAMPERED, NOT_FOUND and ERROR; it made one cache lookup, and either answered
\* from the row it found with no chain read, or made at most one
\* verifyFingerprint call and, only after that call returned true, at most one
\* credentialStatus read.
C34_OneOutcomeNoRetry ==
    vreq.credential_id # 0 =>
        /\ Outcome(vresp) \in {"VALID", "INVALID", "TAMPERED", "NOT_FOUND", "ERROR"}
        /\ Outcome(vresp) = "ERROR" <=> vresp.http # 200
        /\ Made(vcalls.status_read) = 1 => vcalls.verify = "true"
        /\ CredExists(vreq.credential_id) =>
              Made(vcalls.verify) + Made(vcalls.status_read) = 0

\* C34 witness: a call for an id the cache lacks made its one verifyFingerprint
\* call, which returned true, then its one status read, which failed, and ended
\* NOT_FOUND.
C34_Witness ==
    /\ vreq.credential_id # 0
    /\ ~CredExists(vreq.credential_id)
    /\ vcalls = [verify |-> "true", status_read |-> "none"]
    /\ Outcome(vresp) = "NOT_FOUND"

\* C35: the projection of an issued event leaves every Institution row that
\* exists as it is, adds at most one row, and only when no row has the
\* lower-cased address of the event: that row has the address, the placeholder
\* name and is_active = true; when the projection did not raise, a row with the
\* address exists afterwards.
C35_InstitutionCreatedNotUpdated ==
    [][(pc = "sync_issued" /\ pc' = "issued") =>
          LET a == Lower(event_obj.institution)
          IN  /\ inst \subseteq inst'
              /\ inst' # inst =>
                   /\ ~InstExists(a)
                   /\ inst' \ inst = {[address |-> a, name |-> "Unknown Institution",
                                       is_active |-> TRUE, user |-> 0]}
              /\ skipped' = skipped => \E r \in inst' : r.address = a]_vars

\* C35 witness: the indexer has projected the issuance of credential 1 while the
\* institution of the event was registered under its own name and inactive, and
\* the row is as it was.
C35_Witness ==
    /\ \E r \in cred : r.credential_id = 1 /\ r.institution = Lower(InstAddr)
    /\ \E r \in issuedEv : r.credential_id = 1
    /\ [RegisteredInst EXCEPT !.is_active = FALSE] \in inst

\* A run ends without having stored its checkpoint: the worker was killed or the
\* checkpoint write raised.
RunEndsInError == pc # "idle" /\ pc' = "idle" /\ checkpoint' = checkpoint

\* C36: with the chain head standing still at H and runs being scheduled for
\* ever, every run that stores its checkpoint advances it by
\* min(batch size, H - checkpoint), which is at least one block; once runs stop
\* ending in an error the checkpoint reaches H and stays there; and at H a run
\* is a no-op: it starts no query and changes nothing.
C36_CheckpointReachesHead ==
    /\ [][/\ checkpoint' # checkpoint =>
               /\ checkpoint' = checkpoint + Min(BatchSize, ChainHead - checkpoint)
               /\ checkpoint' > checkpoint
          /\ (pc = "idle" /\ checkpoint = ChainHead) => UNCHANGED vars]_vars
    /\ <>[][~RunEndsInError]_vars => <>[](checkpoint = ChainHead /\ pc = "idle")

\* C36 witness: on a chain longer than one batch the checkpoint has reached the
\* head, and the cache holds the event of the last block.
C36_Witness ==
    /\ pc = "idle"
    /\ checkpoint = ChainHead
    /\ ChainHead > BatchSize
    /\ \E r \in issuedEv \cup revokedEv : r.block_number = ChainHead



\* C37: when two invocations of index_blockchain_events overlap, the stored
\* checkpoint never decreases, and every value written to it is the upper end of
\* the range that the writing invocation has finished processing.
C37_OverlapKeepsCheckpoint ==
    [][checkpoint' # checkpoint =>
          /\ checkpoint' >= checkpoint
          /\ checkpoint' = to_block
          /\ queue = <<>>
          /\ pc' = "idle"]_vars


\* C38: no two transactions broadcast by operations of the same signer, one
\* started before the other has ended, carry the same nonce.
C38_NoSharedNonce ==
    \A i, j \in 1..Len(sent) : i # j => sent[i].nonce # sent[j].nonce


\* What each entry point would answer in the present cache and chain state.
PostValid(c, fingerprint, configured, rpc_ok) ==
    ENABLED (/\ VerifyCredential(c, fingerprint, configured, rpc_ok)
             /\ vresp'.http = 200
             /\ vresp'.valid)

LinkValid(c, fingerprint, configured, rpc_ok) ==
    ENABLED (/\ VerifyFromLink(c, fingerprint, configured, rpc_ok, rpc_ok)
             /\ vresp'.http = 200
             /\ vresp'.status = "VALID")

\* verify_fingerprint goes as far as the contract call for this argument.
ReachesContract(passed) ==
    LET f == Lower(Replace(Replace(passed, <<"0", "x">>), <<"0", "X">>))
    IN  Len(f) = HexLen /\ IsHex(f)

PostAsksChain(c, fingerprint, configured, rpc_ok) ==
    /\ ReachesContract(VerifyCredentialClean(fingerprint))
    /\ ENABLED (/\ VerifyCredential(c, fingerprint, configured, rpc_ok)
                /\ vcalls'.verify # "not_called")

LinkAsksChain(c, fingerprint, configured, rpc_ok) ==
    /\ ReachesContract(FingerprintClean(fingerprint))
    /\ ENABLED (/\ VerifyFromLink(c, fingerprint, configured, rpc_ok, rpc_ok)
                /\ vcalls'.verify # "not_called")

\* C39: for the same cache state, chain state, credential id and supplied
\* fingerprint, verify_credential reports valid = true exactly when
\* verify_from_link reports VALID, and the one calls the contract exactly when
\* the other does.
C39_EntryPointsAgree ==
    \A c \in CredIds, fingerprint \in FpInputs, configured, rpc_ok \in BOOLEAN :
        /\ PostValid(c, fingerprint, configured, rpc_ok)
              <=> LinkValid(c, fingerprint, configured, rpc_ok)
        /\ PostAsksChain(c, fingerprint, configured, rpc_ok)
              <=> LinkAsksChain(c, fingerprint, configured, rpc_ok)


\* The fields of a Credential row that only the Orchestrator's views write.
LocalOnly(r) == [student_name |-> r.student_name, transaction_hash |-> r.transaction_hash]

\* C40: when sync_credential_issued projects an issued event onto a Credential
\* row that exists, the row keeps its local-only fields: what an optimistic write
\* stored stays after the indexing of the same credential.
C40_ProjectionKeepsLocalFields ==
    [][\A c \in CredIds :
          (pc = "sync_issued" /\ pc' # pc /\ event_obj.credential_id = c /\ CredExists(c)) =>
              \E r \in cred' : /\ r.credential_id = c
                                /\ LocalOnly(r) = LocalOnly(CredRow(c))]_vars

\* C40 witness: the optimistic write has stored the request's data and the
\* transaction hash in the row of a credential, and the indexer is at the
\* projection of the issued event of that same credential.
C40_Witness ==
    /\ pc = "sync_issued"
    /\ CredExists(event_obj.credential_id)
    /\ event_obj.credential_id \in odone
    /\ CredRow(event_obj.credential_id).student_name = StudentName
    /\ CredRow(event_obj.credential_id).transaction_hash # 0

====
